---- MODULE Spec2Model ----
(***************************************************************************)
(* CropSimulation.simulateCropCycle (PyAEZ crop simulation with the tree   *)
(* overlay switched off): the per-cell cycle-length resolver, the sweep    *)
(* over the candidate start days and the selection of the best start day;  *)
(* CropSimulation.getLGP and AirFrostIndexandPermafrostEvaluation.         *)
(* The grid is flattened row-major into cells 1..im_width (im_height = 1). *)
(* Reduction factors are held in halves (2 stands for 1.0, 1 for 0.5), so  *)
(* that yield * fc1 stays an integer.                                      *)
(***************************************************************************)
EXTENDS Integers, Sequences, FiniteSets, TLC

----------------------------------------------------------------------------
(* Bounds of the model *)

\* months or days of the series given to the climate setters
LoadLen == 1
\* widest grid explored (number of cells of the single row)
MaxWidth == 2
\* largest end_doy passed to simulateCropCycle
MaxEndDoy == 3
\* largest step_doy passed to simulateCropCycle
MaxStep == 2
\* days of the daily series the permafrost evaluation sums over
FrostDays == 2
\* days of the daily series the bucket model of getLGP runs over
YearLen == 3

----------------------------------------------------------------------------
(* Values *)

\* np.nan, as the collaborators may return it
NaN == -1
\* Python's None
None == -2
\* the reduction factor 1.0, in halves
FcOne == 2

\* days of a non-leap year
DaysInYear == 365

\* a value the error checks of the sweep call "returned"
Defined(x) == x # NaN /\ x # None

\* Python's x == y on floats: nothing equals nan, not even nan
PyEq(x, y) == x # NaN /\ y # NaN /\ x = y

\* est_yield * fc1 with fc1 in halves; nan propagates (None raises before)
Times(y, fc) == IF y = NaN \/ fc = NaN THEN NaN ELSE (y * fc) \div FcOne

\* np.append(lst, x)
NpAppend(lst, x) == Append(lst, x)

\* a mutant of NpMax: the first element instead of the largest
NpMaxOfFirst(lst) == lst[1]

\* np.max(lst): nan as soon as one element is nan
NpMax(lst) ==
    IF \E j \in 1..Len(lst) : lst[j] = NaN
    THEN NaN
    ELSE CHOOSE m \in {lst[j] : j \in 1..Len(lst)} :
             \A k \in 1..Len(lst) : lst[k] <= m

\* np.where(lst == m)[0]: the 0-based indices whose element equals m
NpWhere(lst, m) == {j - 1 : j \in {k \in 1..Len(lst) : PyEq(lst[k], m)}}

\* a mutant of FirstIndex: the last index instead of the first
LastIndex(idx) == CHOOSE j \in idx : \A k \in idx : k <= j

\* np.where(...)[0][0]: the first of the indices
FirstIndex(idx) == CHOOSE j \in idx : \A k \in idx : j <= k

\* int(i+1)*step_doy, the day written to the crop calendar
CalendarDay(idx, step) == (idx + 1) * step

----------------------------------------------------------------------------
(* State *)

VARIABLES
    \* crop parameter record (setCropParameters, readCropandCropCycleParameters)
    perennial, cycle_len, min_cycle_len, max_cycle_len, min_temp, LAi, HI,
    \* flags of the optional thermal-screening stages, the TSUM thresholds
    set_lgpt_screening, set_Tsum_screening, setTypeBConstraint, TSum,
    \* the TSUM thresholds of the row readCropandCropCycleParameters last read
    crop_df,
    \* which implementation of the pyaez collaborators is imported
    pyaez,
    \* optional screenings and their grids
    set_mask, im_mask, nodata_val, set_Permafrost_screening, permafrost_class,
    set_tclimate_screening, t_climate,
    \* growing-period grids (ImportLGPandLGPT) and the grid width
    LGP, LGPT5, LGPT10, im_width,
    \* arguments of simulateCropCycle
    start_doy, end_doy, step_doy,
    \* position in simulateCropCycle and the exception that ended it, if any
    pc, exception, i_cell, i_cycle,
    \* resolved cycle lengths (instance fields, kept from cell to cell)
    cycle_len_rain, cycle_len_irr,
    \* leaf area and harvest indices of each regime (instance fields as well)
    LAi_rain, HI_rain, LAi_irr, HI_irr,
    \* per-cell result lists of the sweep
    yield_of_all_crop_cycles_rainfed, yield_of_all_crop_cycles_irrig,
    fc1_rain_lst, fc1_irr_lst, fc2_lst,
    \* indices of the best cycle (locals i and i1 of the selection)
    i, i1,
    \* output grids
    final_yield_rainfed, final_yield_irrig, crop_calender_rain,
    crop_calender_irr, fc1_rain, fc1_irr, fc2,
    \* daily climate of every cell (setDailyClimateData) and lgpt5
    meanT_daily, totalPrec_daily, pet_daily, lgpt5,
    \* humidity, radiation and wind as the climate setters store them
    rel_humidity_daily, shortRad_daily, wind2m_daily,
    rel_humidity_monthly, shortRad_monthly, wind2m_monthly, set_monthly,
    \* one candidate day: the year of the cell, the year doubled, the season
    \* of each regime and the window given to its thermal screening
    minT_daily_point, minT_daily_2year, minT_daily_season_rain,
    minT_daily_season_irr, window_rain, window_irr,
    \* getLGP: running state of the bucket model, daily series, result grid
    Wb_old, Sb_old, Eta365, Etm365, lgp_tot,
    \* AirFrostIndexandPermafrostEvaluation: frost index and class grids,
    \* and the cells its masked arrays hide
    fi, permafrost, returned_mask,
    \* history of the run: allocations of the output grids, assignments to
    \* each cell of each output grid, cells whose sweep was started,
    \* collaborators invoked for the latest candidate day, and whether that
    \* day was stopped by the minimum-temperature gate
    allocations, writes, searched, invoked, below_min_temp,
    \* the indices given to each yield model and the stages configured on
    \* each thermal screening for the latest candidate day; the output grids
    \* of the previous call of simulateCropCycle on the instance, if any
    passed, configured, previous_run

cropVars == <<perennial, cycle_len, min_cycle_len, max_cycle_len, min_temp,
              LAi, HI>>
stageVars == <<set_lgpt_screening, set_Tsum_screening, setTypeBConstraint, TSum,
               crop_df>>
screenVars == <<set_mask, im_mask, nodata_val, set_Permafrost_screening,
                permafrost_class, set_tclimate_screening, t_climate>>
inputVars == <<LGP, LGPT5, LGPT10, im_width, start_doy, end_doy, step_doy>>
climateVars == <<meanT_daily, totalPrec_daily, pet_daily, lgpt5>>
loadedVars == <<rel_humidity_daily, shortRad_daily, wind2m_daily,
                rel_humidity_monthly, shortRad_monthly, wind2m_monthly,
                set_monthly>>
sliceVars == <<minT_daily_point, minT_daily_2year, minT_daily_season_rain,
               minT_daily_season_irr, window_rain, window_irr>>
lgpVars == <<Wb_old, Sb_old, Eta365, Etm365, lgp_tot>>
frostVars == <<fi, permafrost, returned_mask>>
\* the set-up of the instance, and the parts that are not followed
setupVars == <<cropVars, stageVars, pyaez, screenVars, inputVars, loadedVars,
               sliceVars>>
\* what simulateCropCycle reads, or does not touch at all
configVars == <<setupVars, climateVars, lgpVars, frostVars>>
listVars == <<yield_of_all_crop_cycles_rainfed, yield_of_all_crop_cycles_irrig,
              fc1_rain_lst, fc1_irr_lst, fc2_lst>>
rainGrids == <<final_yield_rainfed, crop_calender_rain, fc1_rain, fc2>>
irrGrids == <<final_yield_irrig, crop_calender_irr, fc1_irr>>
gridVars == <<rainGrids, irrGrids>>
historyVars == <<allocations, writes, searched, invoked, below_min_temp>>
adjustedVars == <<LAi_rain, HI_rain, LAi_irr, HI_irr>>
argVars == <<passed, configured>>
\* what only simulateCropCycle assigns
simVars == <<exception, i_cycle, cycle_len_rain, cycle_len_irr, adjustedVars,
             listVars, i, i1, gridVars, historyVars, argVars, previous_run>>
vars == <<configVars, pc, i_cell, simVars>>

\* thermal climate classes declared unsuitable (setThermalClimateScreening)
no_t_climate == {2}
\* value of a field that no statement has assigned yet
Unset == -9

Cells == 1..im_width

\* a mutant of NpZeros: a grid filled with -1
NpMinusOnes == [c \in Cells |-> -1]

\* np.zeros((im_height, im_width))
NpZeros == [c \in Cells |-> 0]

----------------------------------------------------------------------------
(* Initial states: the instance configured by its setters, at the call of  *)
(* simulateCropCycle(start_doy, end_doy, step_doy)                         *)

\* the sweep configurations 1 <= start_doy <= end_doy <= MaxEndDoy, step_doy >= 1
Sweeps ==
    {sw \in [start : 1..MaxEndDoy, end : 1..MaxEndDoy, step : 1..MaxStep] :
        sw.start <= sw.end}

\* the output grids of simulateCropCycle
GridNames == {"final_yield_rainfed", "final_yield_irrig", "crop_calender_rain",
              "crop_calender_irr", "fc1_rain", "fc1_irr", "fc2"}

\* nothing has been given to a yield model yet
NoArguments == [rain |-> <<>>, irr |-> <<>>]

\* the six TSUM thresholds before setTSumScreening, as a crop provides them
\* (in tenths of a degree-day) and as setTSumScreening stores those
NoThresholds ==
    [LnS |-> Unset, LsO |-> Unset, LO |-> Unset,
     HnS |-> Unset, HsO |-> Unset, HO |-> Unset]
GivenThresholds ==
    [LnS |-> 8005, LsO |-> 10000, LO |-> 12000,
     HnS |-> 30000, HsO |-> 26000, HO |-> 22009]
CropThresholds ==
    [LnS |-> 800, LsO |-> 1000, LO |-> 1200,
     HnS |-> 3000, HsO |-> 2600, HO |-> 2200]

\* simulateCropCycle has not been called: none of its fields exists yet
SimNotStarted ==
    /\ exception = "none"
    /\ i_cycle = 0
    /\ cycle_len_rain = Unset
    /\ cycle_len_irr = Unset
    /\ yield_of_all_crop_cycles_rainfed = <<>>
    /\ yield_of_all_crop_cycles_irrig = <<>>
    /\ fc1_rain_lst = <<>>
    /\ fc1_irr_lst = <<>>
    /\ fc2_lst = <<>>
    /\ i = Unset
    /\ i1 = Unset
    /\ final_yield_rainfed = <<>>
    /\ final_yield_irrig = <<>>
    /\ crop_calender_rain = <<>>
    /\ crop_calender_irr = <<>>
    /\ fc1_rain = <<>>
    /\ fc1_irr = <<>>
    /\ fc2 = <<>>
    /\ allocations = 0
    /\ searched = {}
    /\ invoked = {}
    /\ below_min_temp = FALSE
    /\ LAi_rain = Unset
    /\ HI_rain = Unset
    /\ LAi_irr = Unset
    /\ HI_irr = Unset
    /\ passed = NoArguments
    /\ configured = {}
    /\ previous_run = {}

\* no climate setter has stored humidity, radiation or wind (they stay so
\* where the climate setters are not followed)
NoClimateStored ==
    /\ rel_humidity_daily = <<>>
    /\ shortRad_daily = <<>>
    /\ wind2m_daily = <<>>
    /\ rel_humidity_monthly = <<>>
    /\ shortRad_monthly = <<>>
    /\ wind2m_monthly = <<>>
    /\ set_monthly = FALSE

\* no candidate day is followed day by day
SlicesLeftOut ==
    /\ minT_daily_point = <<>>
    /\ minT_daily_2year = <<>>
    /\ minT_daily_season_rain = <<>>
    /\ minT_daily_season_irr = <<>>
    /\ window_rain = <<>>
    /\ window_irr = <<>>

\* getLGP and AirFrostIndexandPermafrostEvaluation have not been called
ClimateNotEvaluated ==
    /\ Wb_old = Unset
    /\ Sb_old = Unset
    /\ Eta365 = <<>>
    /\ Etm365 = <<>>
    /\ lgp_tot = <<>>
    /\ fi = <<>>
    /\ permafrost = <<>>
    /\ returned_mask = {}

\* the fields of the instance set up for the sweep sw over w cells, the crop
\* cr and the screenings sc
SetUp(w, sw, cr, sc, cellOf) ==
        /\ perennial = cr.perennial
        /\ cycle_len = cr.cycle_len
        /\ min_cycle_len = cr.min_cycle_len
        /\ max_cycle_len = cr.max_cycle_len
        /\ min_temp = cr.min_temp
        /\ LAi = cr.LAI
        /\ HI = cr.HI
        /\ set_lgpt_screening = sc.lgpt
        /\ set_Tsum_screening = sc.tsum
        /\ setTypeBConstraint = sc.typeb
        /\ TSum = IF sc.tsum THEN CropThresholds ELSE NoThresholds
        /\ crop_df = {}
        /\ NoClimateStored
        /\ set_mask = sc.mask
        /\ nodata_val = sc.nodata
        /\ set_Permafrost_screening = sc.permafrost
        /\ set_tclimate_screening = sc.tclimate
        /\ im_width = w
        /\ im_mask = [c \in 1..w |-> cellOf[c].mask]
        /\ permafrost_class = [c \in 1..w |-> cellOf[c].permafrost]
        /\ t_climate = [c \in 1..w |-> cellOf[c].tclimate]
        /\ LGP = [c \in 1..w |-> cellOf[c].lgp]
        /\ LGPT5 = [c \in 1..w |-> cellOf[c].lgpt5]
        /\ LGPT10 = [c \in 1..w |-> cellOf[c].lgpt10]
        /\ start_doy = sw.start
        /\ end_doy = sw.end
        /\ step_doy = sw.step
        /\ totalPrec_daily = <<>>
        /\ pet_daily = <<>>
        /\ lgpt5 = <<>>
        /\ ClimateNotEvaluated

\* that instance, at the call of simulateCropCycle
Configured(w, sw, cr, sc, cellOf) ==
        /\ SetUp(w, sw, cr, sc, cellOf)
        /\ SlicesLeftOut
        /\ pc = "entry"
        /\ i_cell = 0
        /\ writes = [g \in GridNames |-> [c \in 1..w |-> 0]]
        /\ SimNotStarted

\* the daily temperatures are left out: any day may be cold or warm
InitWith(Widths, SweepSet, CropSet, ScreenSet, CellSet) ==
    \E w \in Widths, sw \in SweepSet, cr \in CropSet, sc \in ScreenSet :
      \E cellOf \in [1..w -> CellSet] :
        /\ Configured(w, sw, cr, sc, cellOf)
        /\ pyaez = 0
        /\ meanT_daily = <<>>

----------------------------------------------------------------------------
(* Cycle-length resolver *)

Min(a, b) == IF a <= b THEN a ELSE b

\* a mutant of AnnualCycleLen: below the minimum, the length the irrigated
\* regime was last resolved to is kept
AnnualCycleLenKept(period) ==
    IF period < min_cycle_len THEN cycle_len_irr ELSE cycle_len

\* a mutant of AnnualCycleLen: a period equal to the minimum is rejected
AnnualCycleLenStrict(period) ==
    IF period <= min_cycle_len THEN 0 ELSE cycle_len

\* annual crop, either regime: the nominal length, or 0 below the minimum
AnnualCycleLen(period) ==
    IF period < min_cycle_len THEN 0 ELSE cycle_len

\* a mutant of PerennialCycleLenRain: the growing period is not capped
PerennialCycleLenRainUncapped(lgp) ==
    IF lgp < min_cycle_len THEN 0 ELSE lgp

\* perennial crop, rainfed: min(LGP, max_cycle_len), -1 if still too short
PerennialCycleLenRain(lgp) ==
    IF lgp < min_cycle_len
    THEN 0
    ELSE LET capped == Min(lgp, max_cycle_len)
         IN  IF capped < min_cycle_len THEN -1 ELSE capped

\* the growing period the irrigated perennial cycle is resolved from
IrrigatedPeriod(c) == IF min_temp <= 8 THEN LGPT5[c] ELSE LGPT10[c]

\* a mutant of PerennialCycleLenIrr: the growing period is not capped
PerennialCycleLenIrrUncapped(period) ==
    IF period < min_cycle_len THEN -1 ELSE period

\* perennial crop, irrigated: the -1 test follows the if/else, so it also
\* rewrites the 0 of a period below the minimum
PerennialCycleLenIrr(period) ==
    LET capped == IF period < min_cycle_len
                  THEN 0
                  ELSE Min(period, max_cycle_len)
    IN  IF capped < min_cycle_len THEN -1 ELSE capped

\* the perennial cycle length of the irrigated regime as the adjustment of
\* LAI and HI is given it, before the -1 test
PerennialEffectiveIrr(period) ==
    IF period < min_cycle_len THEN 0 ELSE Min(period, max_cycle_len)

\* alpha and beta of the adjustments of LAI and of HI (setCropParameters)
aLAI == 20
bLAI == 100
aHI == 50
bHI == 200

\* an index that is not adjusted, as the fraction base/1
Unadjusted(base) == [num |-> base, den |-> 1]

\* a mutant of Adjusted: the nominal cycle length instead of the effective one
AdjustedToNominal(base, len, a, b) == [num |-> base * (cycle_len - a), den |-> b]

\* adjustForPerennialCrop: base * ((cycle_len - a) / b), as a fraction
Adjusted(base, len, a, b) == [num |-> base * (len - a), den |-> b]

\* LAi_rain or HI_rain after the resolver: the base for an annual crop; for a
\* perennial one the adjustment, or the field as it is when LGP is too short
RainfedIndex(base, a, b, current) ==
    IF ~perennial THEN Unadjusted(base)
    ELSE IF LGP[i_cell] < min_cycle_len THEN current
    ELSE Adjusted(base, Min(LGP[i_cell], max_cycle_len), a, b)

\* LAi_irr or HI_irr after the resolver
IrrigatedIndex(base, a, b) ==
    IF ~perennial THEN Unadjusted(base)
    ELSE Adjusted(base, PerennialEffectiveIrr(IrrigatedPeriod(i_cell)), a, b)

----------------------------------------------------------------------------
(* The setters of the optional thermal-screening stages, and              *)
(* readCropandCropCycleParameters                                         *)

\* the thresholds in the order setTSumScreening converts and stores them
ThresholdOrder == <<"LnS", "LsO", "LO", "HnS", "HsO", "HO">>
Position(name) == CHOOSE k \in DOMAIN ThresholdOrder : ThresholdOrder[k] = name

\* a mutant of IntRaises: int() accepts every value
IntNeverRaises(x) == FALSE

\* int(x) raises ValueError on nan
IntRaises(x) == x = NaN

\* int(x) of a value in tenths: the fraction is dropped
PyInt(x) == IF x = NaN THEN NaN ELSE x \div 10

\* the first threshold int() raises on, 0 when it raises on none
FirstRaising(given) ==
    LET raising == {k \in DOMAIN ThresholdOrder :
                       IntRaises(given[ThresholdOrder[k]])}
    IN  IF raising = {} THEN 0
        ELSE CHOOSE k \in raising : \A j \in raising : k <= j

\* the thresholds after the six assignments, or those before the one that raises
StoredThresholds(old, given) ==
    LET r == FirstRaising(given)
    IN  [name \in DOMAIN old |->
            IF r = 0 \/ Position(name) < r THEN PyInt(given[name]) ELSE old[name]]

\* the body of setTSumScreening: the flag is set after the last assignment
TSumScreeningSet(given) ==
    /\ TSum' = StoredThresholds(TSum, given)
    /\ IF FirstRaising(given) = 0
       THEN /\ set_Tsum_screening' = TRUE
            /\ UNCHANGED <<pc, exception>>
       ELSE /\ pc' = "raised"
            /\ exception' = "ValueError"
            /\ UNCHANGED set_Tsum_screening

\* what simulateCropCycle assigns, but for the exception
runVars == <<i_cycle, cycle_len_rain, cycle_len_irr, adjustedVars, listVars,
             i, i1, gridVars, historyVars, argVars, previous_run>>

setLGPTScreening ==
    /\ pc = "entry"
    /\ set_lgpt_screening' = TRUE
    /\ UNCHANGED <<cropVars, set_Tsum_screening, setTypeBConstraint, TSum,
                   crop_df, pyaez, screenVars, inputVars, loadedVars, sliceVars,
                   climateVars, lgpVars, frostVars, pc, i_cell, simVars>>

setTSumScreening ==
    /\ pc = "entry"
    /\ TSumScreeningSet(GivenThresholds)
    /\ UNCHANGED <<cropVars, set_lgpt_screening, setTypeBConstraint, crop_df,
                   pyaez, screenVars, inputVars, loadedVars, sliceVars,
                   climateVars, lgpVars, frostVars, i_cell, runVars>>

setCropSpecificRule ==
    /\ pc = "entry"
    /\ setTypeBConstraint' = TRUE
    /\ UNCHANGED <<cropVars, set_lgpt_screening, set_Tsum_screening, TSum,
                   crop_df, pyaez, screenVars, inputVars, loadedVars, sliceVars,
                   climateVars, lgpVars, frostVars, pc, i_cell, simVars>>

\* Python's x != y on floats: everything differs from nan, nan included
PyNe(x, y) == ~PyEq(x, y)

\* the rows of the crop sheet: every threshold given, one of them empty, or all
ThresholdRows ==
    {GivenThresholds}
    \cup {[GivenThresholds EXCEPT ![ThresholdOrder[k]] = NaN] :
             k \in DOMAIN ThresholdOrder}
    \cup {[name \in DOMAIN GivenThresholds |-> NaN]}

\* the crop parameters of the row are set, then the TSUM screening when
\* np.all([LnS != np.nan, ..., HO != np.nan])
readCropandCropCycleParameters ==
    /\ pc = "entry"
    /\ \E cr \in [perennial : BOOLEAN, cycle_len : {cycle_len},
                   min_cycle_len : {min_cycle_len},
                   max_cycle_len : {max_cycle_len}, min_temp : {min_temp},
                   LAI : {LAi}, HI : {HI}],
          row \in ThresholdRows :
         /\ perennial' = cr.perennial
         /\ cycle_len' = cr.cycle_len
         /\ min_cycle_len' = cr.min_cycle_len
         /\ max_cycle_len' = cr.max_cycle_len
         /\ min_temp' = cr.min_temp
         /\ LAi' = cr.LAI
         /\ HI' = cr.HI
         /\ crop_df' = {row}
         /\ IF \A name \in DOMAIN row : PyNe(row[name], NaN)
            THEN TSumScreeningSet(row)
            ELSE UNCHANGED <<TSum, set_Tsum_screening, pc, exception>>
    /\ UNCHANGED <<set_lgpt_screening, setTypeBConstraint, pyaez, screenVars,
                   inputVars, loadedVars, sliceVars, climateVars, lgpVars,
                   frostVars, i_cell, runVars>>

----------------------------------------------------------------------------
(* simulateCropCycle: allocation and the per-cell screens *)

\* the output grids are allocated, all zero; the loop starts at the first cell
Allocate ==
    /\ pc = "entry"
    /\ final_yield_rainfed' = NpZeros
    /\ final_yield_irrig' = NpZeros
    /\ crop_calender_irr' = NpZeros
    /\ crop_calender_rain' = NpZeros
    /\ fc2' = NpZeros
    /\ fc1_rain' = NpZeros
    /\ fc1_irr' = NpZeros
    /\ allocations' = allocations + 1
    /\ i_cell' = 1
    /\ pc' = "cell"
    /\ UNCHANGED <<configVars, exception, i_cycle, cycle_len_rain,
                   cycle_len_irr, adjustedVars, listVars, i, i1, writes,
                   searched, invoked, below_min_temp, argVars, previous_run>>

IsMasked(c) == set_mask /\ im_mask[c] = nodata_val

\* a mutant of IsPermafrost: only continuous permafrost is screened out
IsPermafrostContinuousOnly(c) ==
    set_Permafrost_screening /\ permafrost_class[c] = 1

IsPermafrost(c) ==
    set_Permafrost_screening /\ (permafrost_class[c] = 1 \/ permafrost_class[c] = 2)

IsUnsuitableClimate(c) == set_tclimate_screening /\ t_climate[c] \in no_t_climate

\* `continue`: the cell is left as allocated and the loop moves on
Skip ==
    /\ i_cell' = i_cell + 1
    /\ UNCHANGED <<configVars, pc, simVars>>

SkipMasked ==
    /\ pc = "cell" /\ i_cell <= im_width
    /\ IsMasked(i_cell)
    /\ Skip

SkipPermafrost ==
    /\ pc = "cell" /\ i_cell <= im_width
    /\ ~IsMasked(i_cell)
    /\ IsPermafrost(i_cell)
    /\ Skip

SkipThermalClimate ==
    /\ pc = "cell" /\ i_cell <= im_width
    /\ ~IsMasked(i_cell) /\ ~IsPermafrost(i_cell)
    /\ IsUnsuitableClimate(i_cell)
    /\ Skip

\* the cell passes the screens: its cycle lengths are resolved, its result
\* lists start empty and the sweep starts at index start_doy-1
ResolveCycleLength ==
    /\ pc = "cell" /\ i_cell <= im_width
    /\ ~IsMasked(i_cell) /\ ~IsPermafrost(i_cell) /\ ~IsUnsuitableClimate(i_cell)
    /\ cycle_len_irr' = IF ~perennial
                        THEN AnnualCycleLen(LGPT5[i_cell])
                        ELSE PerennialCycleLenIrr(IrrigatedPeriod(i_cell))
    /\ cycle_len_rain' = IF ~perennial
                         THEN AnnualCycleLen(LGP[i_cell])
                         ELSE PerennialCycleLenRain(LGP[i_cell])
    /\ yield_of_all_crop_cycles_rainfed' = <<>>
    /\ yield_of_all_crop_cycles_irrig' = <<>>
    /\ fc1_rain_lst' = <<>>
    /\ fc1_irr_lst' = <<>>
    /\ fc2_lst' = <<>>
    /\ i_cycle' = start_doy - 1
    /\ LAi_rain' = RainfedIndex(LAi, aLAI, bLAI, LAi_rain)
    /\ HI_rain' = RainfedIndex(HI, aHI, bHI, HI_rain)
    /\ LAi_irr' = IrrigatedIndex(LAi, aLAI, bLAI)
    /\ HI_irr' = IrrigatedIndex(HI, aHI, bHI)
    /\ searched' = searched \cup {i_cell}
    /\ invoked' = {}
    /\ below_min_temp' = FALSE
    /\ passed' = NoArguments
    /\ configured' = {}
    /\ pc' = "sweep"
    /\ UNCHANGED <<configVars, exception, i_cell, i, i1, gridVars,
                   allocations, writes, previous_run>>

----------------------------------------------------------------------------
(* simulateCropCycle: one candidate start day of the sweep *)

\* daily minimum and maximum temperatures of the candidate day [deg C]
DailyTemps == {0, 20}

\* the optional stages of ThermalScreening, and those whose flag is set
Stages == {"LGPT", "TSUM", "TypeB"}

\* a mutant of ActiveStages: the TSUM stage follows the flag of the LGPT stage
ActiveStagesShared ==
    (IF set_lgpt_screening THEN {"LGPT", "TSUM"} ELSE {})
    \cup (IF setTypeBConstraint THEN {"TypeB"} ELSE {})

ActiveStages ==
    (IF set_lgpt_screening THEN {"LGPT"} ELSE {})
    \cup (IF set_Tsum_screening THEN {"TSUM"} ELSE {})
    \cup (IF setTypeBConstraint THEN {"TypeB"} ELSE {})

\* what the collaborators return when they honour their contract:
\* ThermalScreening.getReductionFactor2, BioMassCalc.calculateYield,
\* CropWatCalc.calculateMoistureLimitedYield, CropWatCalc.getfc2factormap
Fc1Returns == {0, 1, 2}
BiomassReturns == {2}
MoistureYieldReturns == {1, 2}
Fc2Returns == {2}

\* and what a collaborator that breaks it may return as well
Undefined == {NaN, None}

\* a mutant of ReductionFactors: a screening without any stage may reduce
ReductionFactorsOfAnyStage(Fc1Set) == Fc1Set

\* getReductionFactor2 returns one of Fc1Set; on a screening no stage was
\* configured on it returns 1.0, whatever the climate (or breaks its contract)
ReductionFactors(Fc1Set) ==
    IF ActiveStages = {} THEN {FcOne} \cup (Fc1Set \ Fc1Returns) ELSE Fc1Set

\* the minimum-temperature gate on the first day of the cycle
BelowMinTemp(minT, maxT) == minT + maxT < 2 * min_temp

\* a mutant of GateAppend: a gated day leaves the result list as it is
GateSkip(lst) == lst

\* what a gated day does to each result list: np.append(lst, 0.)
GateAppend(lst) == NpAppend(lst, 0)

\* the collaborator objects one candidate day may create and call:
\* ThermalScreening, BioMassCalc and CropWatCalc of the rainfed branch,
\* ThermalScreening and BioMassCalc of the irrigated branch
ScreeningRain == "obj_screening_rain"
BiomassRain == "obj_maxyield_rain"
CropWat == "obj_cropwat"
ScreeningIrr == "obj_screening_irr"
BiomassIrr == "obj_maxyield_irr"
RainfedCollaborators == {ScreeningRain, BiomassRain, CropWat}
IrrigatedCollaborators == {ScreeningIrr, BiomassIrr}

\* a mutant of RainfedCycle: a thermal reduction factor of 0 does not stop
\* the biomass and water-balance calculations
RainfedCycleNoShortCircuit(r_fc1, r_biomass, r_yield, r_fc2) ==
    IF cycle_len_rain \in {-1, 0}
    THEN [yield |-> 0, fc1 |-> 0, fc2 |-> 0, raised |-> "none", calls |-> {}]
    ELSE IF r_fc1 = None \/ r_biomass = None
    THEN [yield |-> 0, fc1 |-> 0, fc2 |-> 0, raised |-> "TypeError",
          calls |-> {ScreeningRain, BiomassRain}]
    ELSE [yield |-> r_yield, fc1 |-> r_fc1, fc2 |-> r_fc2, raised |-> "none",
          calls |-> {ScreeningRain, BiomassRain, CropWat}]

\* a mutant of IrrigatedCycle: the resolved cycle length is not looked at
IrrigatedCycleAnyLength(i_fc1, i_biomass) ==
    IF PyEq(i_fc1, 0)
    THEN [yield |-> 0, fc1 |-> i_fc1, raised |-> "none",
          calls |-> {ScreeningIrr}]
    ELSE IF i_fc1 = None \/ i_biomass = None
    THEN [yield |-> 0, fc1 |-> 0, raised |-> "TypeError",
          calls |-> {ScreeningIrr, BiomassIrr}]
    ELSE [yield |-> Times(i_biomass, i_fc1), fc1 |-> i_fc1, raised |-> "none",
          calls |-> {ScreeningIrr, BiomassIrr}]

\* rainfed branch of one candidate day: the values the iteration appends, or
\* the TypeError of est_yield_rainfed * fc1_rain on a None
RainfedCycle(r_fc1, r_biomass, r_yield, r_fc2) ==
    IF cycle_len_rain \in {-1, 0}
    THEN [yield |-> 0, fc1 |-> 0, fc2 |-> 0, raised |-> "none", calls |-> {}]
    ELSE IF PyEq(r_fc1, 0)
    THEN [yield |-> 0, fc1 |-> 0, fc2 |-> 0, raised |-> "none",
          calls |-> {ScreeningRain}]
    ELSE IF r_fc1 = None \/ r_biomass = None
    THEN [yield |-> 0, fc1 |-> 0, fc2 |-> 0, raised |-> "TypeError",
          calls |-> {ScreeningRain, BiomassRain}]
    ELSE [yield |-> r_yield, fc1 |-> r_fc1, fc2 |-> r_fc2, raised |-> "none",
          calls |-> {ScreeningRain, BiomassRain, CropWat}]

\* irrigated branch of one candidate day
\* a mutant of IrrigatedCycle: the irrigated branch runs the water balance too
IrrigatedCycleWithCropWat(i_fc1, i_biomass) ==
    IF cycle_len_irr \in {-1, 0}
    THEN [yield |-> 0, fc1 |-> 0, raised |-> "none", calls |-> {}]
    ELSE IF PyEq(i_fc1, 0)
    THEN [yield |-> 0, fc1 |-> i_fc1, raised |-> "none",
          calls |-> {ScreeningIrr}]
    ELSE IF i_fc1 = None \/ i_biomass = None
    THEN [yield |-> 0, fc1 |-> 0, raised |-> "TypeError",
          calls |-> {ScreeningIrr, BiomassIrr}]
    ELSE [yield |-> Times(i_biomass, i_fc1), fc1 |-> i_fc1, raised |-> "none",
          calls |-> {ScreeningIrr, BiomassIrr, CropWat}]

IrrigatedCycle(i_fc1, i_biomass) ==
    IF cycle_len_irr \in {-1, 0}
    THEN [yield |-> 0, fc1 |-> 0, raised |-> "none", calls |-> {}]
    ELSE IF PyEq(i_fc1, 0)
    THEN [yield |-> 0, fc1 |-> i_fc1, raised |-> "none",
          calls |-> {ScreeningIrr}]
    ELSE IF i_fc1 = None \/ i_biomass = None
    THEN [yield |-> 0, fc1 |-> 0, raised |-> "TypeError",
          calls |-> {ScreeningIrr, BiomassIrr}]
    ELSE [yield |-> Times(i_biomass, i_fc1), fc1 |-> i_fc1, raised |-> "none",
          calls |-> {ScreeningIrr, BiomassIrr}]

\* "Error checking code snippet" after the rainfed appends: x == np.nan is
\* never true, so only None and a list length other than i_cycle+1 raise
RainfedChecks(est_yield, fc1_value, fc2_value, len) ==
    IF est_yield = None THEN "Crop Water Yield not returned"
    ELSE IF fc2_value = None THEN "fc2 value not returned"
    ELSE IF len # i_cycle + 1 \/ fc1_value = None
    THEN "Fc1 rain not properly appended"
    ELSE "none"

\* "Error raising" after the irrigated appends
IrrigatedChecks(est_yield, fc1_value, len) ==
    IF est_yield = None THEN "Biomass Yield for irrigated not returned"
    ELSE IF len # i_cycle + 1
    THEN "Irrigated yield list not properly appended"
    ELSE IF fc1_value = None THEN "Fc1 irr not properly appended"
    ELSE "none"

Raise(what) ==
    /\ pc' = "raised"
    /\ exception' = what
    /\ UNCHANGED i_cycle

\* one iteration of `for i_cycle in range(start_doy-1, end_doy, step_doy)`,
\* the collaborators returning values of the given sets
CandidateDayFrom(Gates, RFc1Set, RBiomassSet, YieldSet, Fc2Set, IFc1Set, IBiomassSet) ==
    /\ pc = "sweep" /\ i_cycle < end_doy
    /\ \E gated \in Gates :
         IF gated
         THEN /\ yield_of_all_crop_cycles_rainfed' =
                     GateAppend(yield_of_all_crop_cycles_rainfed)
              /\ yield_of_all_crop_cycles_irrig' =
                     GateAppend(yield_of_all_crop_cycles_irrig)
              /\ fc1_rain_lst' = GateAppend(fc1_rain_lst)
              /\ fc1_irr_lst' = GateAppend(fc1_irr_lst)
              /\ fc2_lst' = GateAppend(fc2_lst)
              /\ i_cycle' = i_cycle + step_doy
              /\ invoked' = {}
              /\ below_min_temp' = TRUE
              /\ passed' = NoArguments
              /\ configured' = {}
              /\ UNCHANGED <<pc, exception>>
         ELSE \E r_fc1 \in RFc1Set, r_biomass \in RBiomassSet,
                 r_yield \in YieldSet, r_fc2 \in Fc2Set,
                 i_fc1 \in IFc1Set, i_biomass \in IBiomassSet :
           LET rain == RainfedCycle(r_fc1, r_biomass, r_yield, r_fc2)
               irr == IrrigatedCycle(i_fc1, i_biomass)
               rainCheck == RainfedChecks(rain.yield, rain.fc1, rain.fc2,
                                          Len(fc1_rain_lst) + 1)
               irrCheck == IrrigatedChecks(irr.yield, irr.fc1,
                                           Len(fc1_irr_lst) + 1)
           IN
             /\ below_min_temp' = FALSE
             /\ invoked' = IF rain.raised # "none" \/ rainCheck # "none"
                           THEN rain.calls
                           ELSE rain.calls \cup irr.calls
             /\ passed' =
                  [rain |-> IF BiomassRain \in invoked'
                            THEN <<LAi_rain, HI_rain>> ELSE <<>>,
                   irr |-> IF BiomassIrr \in invoked'
                           THEN <<LAi_irr, HI_irr>> ELSE <<>>]
             /\ configured' =
                  (invoked' \cap {ScreeningRain, ScreeningIrr}) \X ActiveStages
             /\ IF rain.raised # "none"
                THEN /\ Raise(rain.raised)
                     /\ UNCHANGED listVars
                ELSE
                  /\ yield_of_all_crop_cycles_rainfed' =
                         NpAppend(yield_of_all_crop_cycles_rainfed, rain.yield)
                  /\ fc2_lst' = NpAppend(fc2_lst, rain.fc2)
                  /\ fc1_rain_lst' = NpAppend(fc1_rain_lst, rain.fc1)
                  /\ IF rainCheck # "none"
                     THEN /\ Raise(rainCheck)
                          /\ UNCHANGED <<yield_of_all_crop_cycles_irrig, fc1_irr_lst>>
                     ELSE IF irr.raised # "none"
                     THEN /\ Raise(irr.raised)
                          /\ UNCHANGED <<yield_of_all_crop_cycles_irrig, fc1_irr_lst>>
                     ELSE
                       /\ yield_of_all_crop_cycles_irrig' =
                              NpAppend(yield_of_all_crop_cycles_irrig, irr.yield)
                       /\ fc1_irr_lst' = NpAppend(fc1_irr_lst, irr.fc1)
                       /\ IF irrCheck # "none"
                          THEN Raise(irrCheck)
                          ELSE /\ i_cycle' = i_cycle + step_doy
                               /\ UNCHANGED <<pc, exception>>
    /\ UNCHANGED <<configVars, i_cell, cycle_len_rain, cycle_len_irr,
                   adjustedVars, i, i1, gridVars, allocations, writes, searched,
                   previous_run>>

\* the day may be cold or warm; both thermal screenings return one of Fc1Set,
\* both yield models one of BiomassSet
CandidateDayWith(Fc1Set, BiomassSet, YieldSet, Fc2Set) ==
    CandidateDayFrom(
        {BelowMinTemp(minT, maxT) : minT \in DailyTemps, maxT \in DailyTemps},
        ReductionFactors(Fc1Set), BiomassSet, YieldSet, Fc2Set,
        ReductionFactors(Fc1Set), BiomassSet)

\* the collaborators honour their contract
CandidateDay ==
    CandidateDayWith(Fc1Returns, BiomassReturns, MoistureYieldReturns, Fc2Returns)

\* the collaborators may return nan or None as well
CandidateDayAnyReturn ==
    CandidateDayWith(Fc1Returns \cup Undefined, BiomassReturns \cup Undefined,
                     MoistureYieldReturns \cup Undefined, Fc2Returns \cup Undefined)

\* days of the window the thermal screening of a regime is given: the slice
\* [i_cycle : i_cycle+365-1] for a perennial crop, the season of len else
ScreeningDays(len) == IF perennial THEN DaysInYear - 1 ELSE len - 1

\* collaborators that compute their result from their arguments alone; pyaez
\* tells which of the implementations that honour the contract is imported
Fc1Of(c, d, days) == (pyaez + c + d + days) % 3
BiomassOf(c, d, len, lai, hi) ==
    2 + 2 * ((pyaez + c + d + len + lai.num + hi.num) % 2)
MoistureYieldOf(c, d, len, est) ==
    IF (pyaez + c + d + len) % 2 = 0 THEN est ELSE (est + 1) \div 2
Fc2Of(c, d, len) == 1 + ((pyaez + d + len) % 2)

\* the day is as cold as the daily climate of the cell says, and every
\* collaborator returns what its arguments determine
CandidateDayDeterministic ==
    LET rainOn == cycle_len_rain \notin {-1, 0}
        irrOn == cycle_len_irr \notin {-1, 0}
        r_fc1s == ReductionFactors(
                      {Fc1Of(i_cell, i_cycle, ScreeningDays(cycle_len_rain))})
        i_fc1s == ReductionFactors(
                      {Fc1Of(i_cell, i_cycle, ScreeningDays(cycle_len_irr))})
        r_biomass == IF rainOn
                     THEN BiomassOf(i_cell, i_cycle, cycle_len_rain,
                                    LAi_rain, HI_rain)
                     ELSE 0
        i_biomass == IF irrOn
                     THEN BiomassOf(i_cell, i_cycle, cycle_len_irr,
                                    LAi_irr, HI_irr)
                     ELSE 0
        est_yield_rainfed == Times(r_biomass, CHOOSE f \in r_fc1s : TRUE)
    IN  CandidateDayFrom(
            {meanT_daily[i_cell][i_cycle + 1] < min_temp},
            r_fc1s, {r_biomass},
            {MoistureYieldOf(i_cell, i_cycle, cycle_len_rain, est_yield_rainfed)},
            {Fc2Of(i_cell, i_cycle, cycle_len_rain)},
            i_fc1s, {i_biomass})

----------------------------------------------------------------------------
(* simulateCropCycle: the climate of one candidate day, slice by slice *)

\* a mutant of NpTile: the year is not repeated
NpTileOnce(series) == series

\* np.tile(series, 2)
NpTile(series) == series \o series

\* the Python slice series[lo:hi], 0 <= lo: the elements of the 0-based
\* indices lo..hi-1 that the series has
PySlice(series, lo, hi) == SubSeq(series, lo + 1, Min(hi, Len(series)))

\* the year of the cell is repeated
TileYear ==
    /\ pc = "day_entry"
    /\ minT_daily_2year' = NpTile(minT_daily_point)
    /\ pc' = "day_tiled"
    /\ UNCHANGED <<cropVars, stageVars, pyaez, screenVars, inputVars, loadedVars,
                   minT_daily_point, minT_daily_season_rain,
                   minT_daily_season_irr, window_rain, window_irr,
                   climateVars, lgpVars, frostVars, i_cell, simVars>>

\* the rainfed season and the window of the rainfed thermal screening
SliceRainfed ==
    /\ pc = "day_tiled"
    /\ IF cycle_len_rain \in {-1, 0}
       THEN UNCHANGED <<minT_daily_season_rain, window_rain>>
       ELSE /\ minT_daily_season_rain' =
                   PySlice(minT_daily_2year, i_cycle, i_cycle + cycle_len_rain - 1)
            /\ window_rain' =
                   IF perennial
                   THEN PySlice(minT_daily_2year, i_cycle, i_cycle + DaysInYear - 1)
                   ELSE minT_daily_season_rain'
    /\ pc' = "day_rainfed"
    /\ UNCHANGED <<cropVars, stageVars, pyaez, screenVars, inputVars, loadedVars,
                   minT_daily_point, minT_daily_2year, minT_daily_season_irr,
                   window_irr, climateVars, lgpVars, frostVars, i_cell, simVars>>

\* the irrigated season and the window of the irrigated thermal screening
SliceIrrigated ==
    /\ pc = "day_rainfed"
    /\ IF cycle_len_irr \in {-1, 0}
       THEN UNCHANGED <<minT_daily_season_irr, window_irr>>
       ELSE /\ minT_daily_season_irr' =
                   PySlice(minT_daily_2year, i_cycle, i_cycle + cycle_len_irr - 1)
            /\ window_irr' =
                   IF perennial
                   THEN PySlice(minT_daily_2year, i_cycle, i_cycle + DaysInYear - 1)
                   ELSE minT_daily_season_irr'
    /\ pc' = "day_irrigated"
    /\ UNCHANGED <<cropVars, stageVars, pyaez, screenVars, inputVars, loadedVars,
                   minT_daily_point, minT_daily_2year, minT_daily_season_rain,
                   window_rain, climateVars, lgpVars, frostVars, i_cell, simVars>>

----------------------------------------------------------------------------
(* simulateCropCycle: the best cycle of the cell, after its sweep *)

IrrGridNames == {"final_yield_irrig", "crop_calender_irr", "fc1_irr"}
RainGridNames == {"final_yield_rainfed", "crop_calender_rain", "fc1_rain", "fc2"}

\* the assignment counts after one more assignment to cell c of each grid named
Wrote(w, names, c) ==
    [g \in GridNames |-> IF g \in names THEN [w[g] EXCEPT ![c] = @ + 1] ELSE w[g]]

\* the irrigated outputs, then the rainfed ones.  np.max of a list holding a
\* nan is nan, which no element equals: the yield is written and the [0][0]
\* that follows raises IndexError.
SelectBest ==
    /\ pc = "sweep" /\ i_cycle >= end_doy
    /\ LET maxIrr == NpMax(yield_of_all_crop_cycles_irrig)
           whereIrr == NpWhere(yield_of_all_crop_cycles_irrig, maxIrr)
           maxRain == NpMax(yield_of_all_crop_cycles_rainfed)
           whereRain == NpWhere(yield_of_all_crop_cycles_rainfed, maxRain)
           irrLists == Len(yield_of_all_crop_cycles_irrig) = Len(fc1_irr_lst)
           rainLists == Len(yield_of_all_crop_cycles_rainfed) = Len(fc1_rain_lst)
           irrWritten == IF ~irrLists THEN {}
                         ELSE IF whereIrr = {} THEN {"final_yield_irrig"}
                         ELSE IrrGridNames
           rainWritten == IF (irrLists /\ whereIrr = {}) \/ ~rainLists THEN {}
                          ELSE IF whereRain = {} THEN {"final_yield_rainfed"}
                          ELSE RainGridNames
       IN
         /\ writes' = Wrote(writes, irrWritten \cup rainWritten, i_cell)
         /\ IF irrLists /\ whereIrr = {}
            THEN /\ final_yield_irrig' = [final_yield_irrig EXCEPT ![i_cell] = maxIrr]
                 /\ pc' = "raised"
                 /\ exception' = "IndexError"
                 /\ UNCHANGED <<i, i1, crop_calender_irr, fc1_irr, rainGrids>>
            ELSE
              /\ IF irrLists
                 THEN /\ final_yield_irrig' =
                             [final_yield_irrig EXCEPT ![i_cell] = maxIrr]
                      /\ i' = FirstIndex(whereIrr)
                      /\ crop_calender_irr' =
                             [crop_calender_irr EXCEPT ![i_cell] = CalendarDay(i', step_doy)]
                      /\ fc1_irr' = [fc1_irr EXCEPT ![i_cell] = fc1_irr_lst[i' + 1]]
                 ELSE UNCHANGED <<i, irrGrids>>
              /\ IF rainLists /\ whereRain = {}
                 THEN /\ final_yield_rainfed' =
                             [final_yield_rainfed EXCEPT ![i_cell] = maxRain]
                      /\ pc' = "raised"
                      /\ exception' = "IndexError"
                      /\ UNCHANGED <<i1, crop_calender_rain, fc1_rain, fc2>>
                 ELSE
                   /\ IF rainLists
                      THEN /\ final_yield_rainfed' =
                                  [final_yield_rainfed EXCEPT ![i_cell] = maxRain]
                           /\ i1' = FirstIndex(whereRain)
                           /\ crop_calender_rain' =
                                  [crop_calender_rain EXCEPT
                                      ![i_cell] = CalendarDay(i1', step_doy)]
                           /\ fc1_rain' = [fc1_rain EXCEPT ![i_cell] = fc1_rain_lst[i1' + 1]]
                           /\ fc2' = [fc2 EXCEPT ![i_cell] = fc2_lst[i1' + 1]]
                      ELSE UNCHANGED <<i1, rainGrids>>
                   /\ pc' = "selected"
                   /\ UNCHANGED exception
    /\ UNCHANGED <<configVars, i_cell, i_cycle, cycle_len_rain, cycle_len_irr,
                   adjustedVars, listVars, allocations, searched, invoked,
                   below_min_temp, argVars, previous_run>>

\* the loop over the cells moves on
NextCell ==
    /\ pc = "selected"
    /\ i_cell' = i_cell + 1
    /\ pc' = "cell"
    /\ UNCHANGED <<configVars, simVars>>

\* 'Simulations Completed !'
Finish ==
    /\ pc = "cell" /\ i_cell > im_width
    /\ pc' = "done"
    /\ UNCHANGED <<configVars, i_cell, simVars>>

\* the seven output grids as they are
RunOutputs ==
    [final_yield_rainfed |-> final_yield_rainfed,
     final_yield_irrig |-> final_yield_irrig,
     crop_calender_rain |-> crop_calender_rain,
     crop_calender_irr |-> crop_calender_irr,
     fc1_rain |-> fc1_rain, fc1_irr |-> fc1_irr, fc2 |-> fc2]

\* simulateCropCycle is called again on the instance, with the same
\* arguments: the fields of the instance are as the first call left them,
\* the locals of the call are new
Rerun ==
    /\ pc = "done" /\ previous_run = {}
    /\ previous_run' = {RunOutputs}
    /\ pc' = "entry"
    /\ i_cell' = 0
    /\ i_cycle' = 0
    /\ yield_of_all_crop_cycles_rainfed' = <<>>
    /\ yield_of_all_crop_cycles_irrig' = <<>>
    /\ fc1_rain_lst' = <<>>
    /\ fc1_irr_lst' = <<>>
    /\ fc2_lst' = <<>>
    /\ i' = Unset
    /\ i1' = Unset
    /\ allocations' = 0
    /\ writes' = [g \in GridNames |-> [c \in Cells |-> 0]]
    /\ searched' = {}
    /\ invoked' = {}
    /\ below_min_temp' = FALSE
    /\ passed' = NoArguments
    /\ configured' = {}
    /\ UNCHANGED <<configVars, exception, cycle_len_rain, cycle_len_irr,
                   adjustedVars, gridVars>>

----------------------------------------------------------------------------
(* setMonthlyClimateData and setDailyClimateData *)

\* the limits 0.99 and 0.05 of the relative humidity, in hundredths
RhMax == 99
RhMin == 5

\* rel_humidity[rel_humidity > 0.99] = 0.99, then [rel_humidity < 0.05] = 0.05
ClipHumidity(series) ==
    [d \in DOMAIN series |->
        LET capped == IF series[d] > RhMax THEN RhMax ELSE series[d]
        IN  IF capped < RhMin THEN RhMin ELSE capped]

\* series[series < 0] = 0
ClipNegative(series) ==
    [d \in DOMAIN series |-> IF series[d] < 0 THEN 0 ELSE series[d]]

\* np.zeros over the days of a series
ZeroDays(series) == [d \in DOMAIN series |-> 0]

\* the series a climate setter may be given for a cell: temperatures [deg C],
\* precipitation [mm/day], radiation [W/m2], wind [dm/s], humidity [1/100]
GivenTemps == [1..LoadLen -> {0, 10}]
GivenPrec == [1..LoadLen -> {4}]
GivenRad == [1..LoadLen -> {-3, 0, 150}]
GivenWind == [1..LoadLen -> {-2, 0, 30}]
GivenHumidity == [1..LoadLen -> {-10, 5, 20, 50, 99, 120}]

\* ETOCalc.calculateETO: the daily reference evapotranspiration [mm/day]
EtoReturns == {2}

\* UtilitiesCalc.interpMonthlyToDaily, the year having as many days as
\* months: the daily series passes through the monthly values
InterpMonthlyToDaily(monthly, no_minus_values) ==
    IF no_minus_values THEN ClipNegative(monthly) ELSE monthly

\* the daily climate of the cells the mask lets through; zeros elsewhere
DailyOf(series) ==
    [c \in Cells |-> IF IsMasked(c) THEN ZeroDays(series[c]) ELSE series[c]]

\* setDailyClimateData: humidity and radiation are clipped, not the wind
setDailyClimateData ==
    /\ pc \in {"climate_entry", "climate_loaded"}
    /\ \E temp \in [Cells -> GivenTemps], precipitation \in [Cells -> GivenPrec],
          short_rad \in [Cells -> GivenRad], wind_speed \in [Cells -> GivenWind],
          rel_humidity \in [Cells -> GivenHumidity], eto \in EtoReturns :
         /\ rel_humidity_daily' = [c \in Cells |-> ClipHumidity(rel_humidity[c])]
         /\ shortRad_daily' = [c \in Cells |-> ClipNegative(short_rad[c])]
         /\ wind2m_daily' = wind_speed
         /\ meanT_daily' = DailyOf(temp)
         /\ totalPrec_daily' = DailyOf(precipitation)
         /\ pet_daily' = DailyOf([c \in Cells |-> [d \in 1..LoadLen |-> eto]])
    /\ set_monthly' = FALSE
    /\ pc' = "climate_loaded"
    /\ UNCHANGED <<cropVars, stageVars, pyaez, screenVars, inputVars, sliceVars,
                   rel_humidity_monthly, shortRad_monthly, wind2m_monthly,
                   lgpt5, lgpVars, frostVars, i_cell, simVars>>

\* setMonthlyClimateData: humidity, radiation and wind are clipped, the
\* daily series are interpolated for the cells the mask lets through
setMonthlyClimateData ==
    /\ pc \in {"climate_entry", "climate_loaded"}
    /\ \E temp \in [Cells -> GivenTemps], precipitation \in [Cells -> GivenPrec],
          short_rad \in [Cells -> GivenRad], wind_speed \in [Cells -> GivenWind],
          rel_humidity \in [Cells -> GivenHumidity], eto \in EtoReturns :
         /\ rel_humidity_monthly' = [c \in Cells |-> ClipHumidity(rel_humidity[c])]
         /\ shortRad_monthly' = [c \in Cells |-> ClipNegative(short_rad[c])]
         /\ wind2m_monthly' = [c \in Cells |-> ClipNegative(wind_speed[c])]
         /\ meanT_daily' =
                DailyOf([c \in Cells |-> InterpMonthlyToDaily(temp[c], FALSE)])
         /\ totalPrec_daily' =
                DailyOf([c \in Cells |-> InterpMonthlyToDaily(precipitation[c], TRUE)])
         /\ pet_daily' = DailyOf([c \in Cells |-> [d \in 1..LoadLen |-> eto]])
    /\ set_monthly' = TRUE
    /\ pc' = "climate_loaded"
    /\ UNCHANGED <<cropVars, stageVars, pyaez, screenVars, inputVars, sliceVars,
                   rel_humidity_daily, shortRad_daily, wind2m_daily,
                   lgpt5, lgpVars, frostVars, i_cell, simVars>>

----------------------------------------------------------------------------
(* AirFrostIndexandPermafrostEvaluation *)

\* sum of a daily series
RECURSIVE NpSum(_)
NpSum(series) ==
    IF series = <<>> THEN 0 ELSE Head(series) + NpSum(Tail(series))

\* thawing index: the sum of the daily mean temperatures above 0
ThawingIndex(series) ==
    NpSum([d \in DOMAIN series |-> IF series[d] <= 0 THEN 0 ELSE series[d]])

\* freezing index: minus the sum of the daily mean temperatures of the other days
FreezingIndex(series) ==
    0 - NpSum([d \in DOMAIN series |-> IF series[d] > 0 THEN 0 ELSE series[d]])

\* the square roots np.sqrt takes here are exact: the indices are squares
Roots == 0..150
IsSquare(n) == \E r \in Roots : r * r = n
NpSqrt(n) == CHOOSE r \in Roots : r * r = n

\* sqrt(ddf)/(sqrt(ddf)+sqrt(ddt)) as a fraction; 0/0 is nan
FrostIndex(ddf, ddt) ==
    [num |-> NpSqrt(ddf), den |-> NpSqrt(ddf) + NpSqrt(ddt)]

IsNan(f) == f.den = 0

\* f > q and f < q for a threshold q in thousandths; false on nan
Greater(f, q) == ~IsNan(f) /\ f.num * 1000 > q * f.den
Less(f, q) == ~IsNan(f) /\ f.num * 1000 < q * f.den

\* the thresholds 0.625, 0.57 and 0.495 of the classes, in thousandths
FiContinuous == 625
FiDiscontinuous == 570
FiSporadic == 495

\* the four `if` statements in sequence, on a cell that holds 0
PermafrostClass(f) ==
    LET c1 == IF Greater(f, FiContinuous) THEN 1 ELSE 0
        c2 == IF Greater(f, FiDiscontinuous) /\ Less(f, FiContinuous) THEN 2 ELSE c1
        c3 == IF Greater(f, FiSporadic) /\ Less(f, FiDiscontinuous) THEN 3 ELSE c2
    IN  IF Less(f, FiSporadic) THEN 4 ELSE c3

\* np.nan_to_num on one value
NanToNum(f) == IF IsNan(f) THEN [num |-> 0, den |-> 1] ELSE f

\* fi, ddt and ddf of the whole grid; the class grid starts at 0
FrostIndexGrid ==
    /\ pc = "frost_entry"
    /\ fi' = [c \in Cells |-> FrostIndex(FreezingIndex(meanT_daily[c]),
                                         ThawingIndex(meanT_daily[c]))]
    /\ permafrost' = NpZeros
    /\ i_cell' = 1
    /\ pc' = "frost_classify"
    /\ UNCHANGED <<setupVars, climateVars, lgpVars,
                   returned_mask, simVars>>

\* a masked cell is not classified
ClassifyMasked ==
    /\ pc = "frost_classify" /\ i_cell <= im_width
    /\ IsMasked(i_cell)
    /\ i_cell' = i_cell + 1
    /\ UNCHANGED <<configVars, pc, simVars>>

Classify ==
    /\ pc = "frost_classify" /\ i_cell <= im_width
    /\ ~IsMasked(i_cell)
    /\ permafrost' = [permafrost EXCEPT ![i_cell] = PermafrostClass(fi[i_cell])]
    /\ i_cell' = i_cell + 1
    /\ UNCHANGED <<setupVars, climateVars, lgpVars, fi,
                   returned_mask, pc, simVars>>

\* the nan of 0/0 becomes 0 after the classification; with a mask the grids
\* are returned as masked arrays that hide the cells where im_mask == 0
ReturnFrost ==
    /\ pc = "frost_classify" /\ i_cell > im_width
    /\ fi' = [c \in Cells |-> NanToNum(fi[c])]
    /\ returned_mask' = IF set_mask THEN {c \in Cells : im_mask[c] = 0} ELSE {}
    /\ pc' = "frost_done"
    /\ UNCHANGED <<setupVars, climateVars, lgpVars,
                   permafrost, i_cell, simVars>>

----------------------------------------------------------------------------
(* getLGP *)

\* defaults of the arguments Sa [mm/m] and D [m]
Sa == 100
D == 1
\* snow melt temperature threshold, and the melting coefficient 5.5 in halves
Txsnm == 0
FsnmHalves == 11
\* Wb_old and Sb_old as getLGP sets them before its loop over the cells
BucketStart == 0

\* LGPCalc.EtaCalc for one day: precipitation falls as snow at or below
\* Txsnm, the snow pack melts above it, the bucket takes the water up to
\* Sa*D and gives ETa up to the demand ETm
EtaCalc(Ta, Pcp, Eto, wb, sb) ==
    LET snowing == Ta <= Txsnm
        melt == IF snowing THEN 0 ELSE Min(sb, (FsnmHalves * (Ta - Txsnm)) \div 2)
        water == wb + (IF snowing THEN 0 ELSE Pcp + melt)
        etm == Eto
        eta == Min(etm, water)
    IN  [Eta |-> eta, Etm |-> etm,
         Wb |-> Min(water - eta, Sa * D),
         Sb |-> IF snowing THEN sb + Pcp ELSE sb - melt]

\* `for doy in range(0, 365)` on cell c from day doy on, the running state
\* being (wb, sb): the daily ETa and ETm of the cell and the state left behind
RECURSIVE BucketYear(_, _, _, _)
BucketYear(c, doy, wb, sb) ==
    IF doy > Len(meanT_daily[c])
    THEN [Eta |-> <<>>, Etm |-> <<>>, Wb |-> wb, Sb |-> sb]
    ELSE LET day == EtaCalc(meanT_daily[c][doy], totalPrec_daily[c][doy],
                            pet_daily[c][doy], wb, sb)
             rest == BucketYear(c, doy + 1, day.Wb, day.Sb)
         IN  [Eta |-> <<IF day.Eta < 0 THEN 0 ELSE day.Eta>> \o rest.Eta,
              Etm |-> <<day.Etm>> \o rest.Etm,
              Wb |-> rest.Wb, Sb |-> rest.Sb]

\* LGPCalc.islgpt: the day is warm enough to grow
IsLgpt(Ta) == Ta >= 5

\* days of the moving window of LGPCalc.val10day, within the modelled year
Window == 2

\* LGPCalc.val10day on the doubled series, at day d: the sum over the window
\* that ends at day d, wrapping around the start of the year
Val10day(doubled, d) ==
    NpSum([k \in 1..Window |-> doubled[d + (Len(doubled) \div 2) - k + 1]])

\* the count of the days whose windowed ETa/ETm is >= 0.4 and that are warm
CountLgp(eta, etm, temps) ==
    LET Eta365X == eta \o eta
        Etm365X == etm \o etm
    IN  Cardinality({d \in 1..Len(eta) :
            /\ IsLgpt(temps[d])
            /\ 10 * Val10day(Eta365X, d) >= 4 * Val10day(Etm365X, d)})

\* the running state is set once, before the loop over the cells
LgpSetup ==
    /\ pc = "lgp_entry"
    /\ Sb_old' = BucketStart
    /\ Wb_old' = BucketStart
    /\ Etm365' = [c \in Cells |-> [d \in DOMAIN meanT_daily[c] |-> 0]]
    /\ Eta365' = [c \in Cells |-> [d \in DOMAIN meanT_daily[c] |-> 0]]
    /\ lgp_tot' = NpZeros
    /\ i_cell' = 1
    /\ pc' = "lgp_bucket"
    /\ UNCHANGED <<setupVars, climateVars, frostVars,
                   simVars>>

BucketMasked ==
    /\ pc = "lgp_bucket" /\ i_cell <= im_width
    /\ IsMasked(i_cell)
    /\ i_cell' = i_cell + 1
    /\ UNCHANGED <<configVars, pc, simVars>>

\* the year of one cell, from the state the previous cell left
BucketCell ==
    /\ pc = "lgp_bucket" /\ i_cell <= im_width
    /\ ~IsMasked(i_cell)
    /\ LET year == BucketYear(i_cell, 1, Wb_old, Sb_old)
       IN  /\ Eta365' = [Eta365 EXCEPT ![i_cell] = year.Eta]
           /\ Etm365' = [Etm365 EXCEPT ![i_cell] = year.Etm]
           /\ Wb_old' = year.Wb
           /\ Sb_old' = year.Sb
    /\ i_cell' = i_cell + 1
    /\ UNCHANGED <<setupVars, climateVars, frostVars,
                   lgp_tot, pc, simVars>>

\* the second loop over the cells starts
BucketDone ==
    /\ pc = "lgp_bucket" /\ i_cell > im_width
    /\ i_cell' = 1
    /\ pc' = "lgp_count"
    /\ UNCHANGED <<configVars, simVars>>

CountMasked ==
    /\ pc = "lgp_count" /\ i_cell <= im_width
    /\ IsMasked(i_cell)
    /\ i_cell' = i_cell + 1
    /\ UNCHANGED <<configVars, pc, simVars>>

CountCell ==
    /\ pc = "lgp_count" /\ i_cell <= im_width
    /\ ~IsMasked(i_cell)
    /\ lgp_tot' = [lgp_tot EXCEPT ![i_cell] =
                      CountLgp(Eta365[i_cell], Etm365[i_cell], meanT_daily[i_cell])]
    /\ i_cell' = i_cell + 1
    /\ UNCHANGED <<setupVars, climateVars, frostVars,
                   Wb_old, Sb_old, Eta365, Etm365, pc, simVars>>

\* np.where(self.im_mask, lgp_tot, np.nan) when a mask is set
ReturnLGP ==
    /\ pc = "lgp_count" /\ i_cell > im_width
    /\ lgp_tot' = IF set_mask
                  THEN [c \in Cells |-> IF im_mask[c] # 0 THEN lgp_tot[c] ELSE NaN]
                  ELSE lgp_tot
    /\ pc' = "lgp_done"
    /\ UNCHANGED <<setupVars, climateVars, frostVars,
                   Wb_old, Sb_old, Eta365, Etm365, i_cell, simVars>>

----------------------------------------------------------------------------
(* Specifications *)

\* crop records: [min_cycle_len, max_cycle_len] = [100, 300], nominal 120
SweepCrops ==
    [perennial : BOOLEAN, cycle_len : {120}, min_cycle_len : {100},
     max_cycle_len : {300}, min_temp : {5}, LAI : {4}, HI : {3}]

\* crop records for the resolver: a minimum the growing periods can equal, a
\* maximum below the nominal length (95) and below the minimum (95 < 100),
\* germination temperatures on both sides of 8 degrees
ResolverCrops ==
    [perennial : BOOLEAN, cycle_len : {120}, min_cycle_len : {90, 100},
     max_cycle_len : {95, 300}, min_temp : {5, 10}, LAI : {4}, HI : {3}]

\* the per-cell screens, none or all; the sentinel of the study-area mask is
\* 0 (a binary mask).  Of the stages of the thermal screening, LGPT is set.
NoScreens ==
    [mask : {FALSE}, nodata : {0}, permafrost : {FALSE}, tclimate : {FALSE},
     lgpt : {TRUE}, tsum : {FALSE}, typeb : {FALSE}]
AllScreens ==
    [mask : {TRUE}, nodata : {0}, permafrost : {TRUE}, tclimate : {TRUE},
     lgpt : {TRUE}, tsum : {FALSE}, typeb : {FALSE}]

\* a mask whose sentinel is 9: its cells hold 9 outside the study area
SentinelScreens ==
    [mask : {TRUE}, nodata : {9}, permafrost : {FALSE}, tclimate : {FALSE},
     lgpt : {TRUE}, tsum : {FALSE}, typeb : {FALSE}]
\* every combination of the three optional screenings, set or not
AnyScreens ==
    [mask : BOOLEAN, nodata : {0}, permafrost : BOOLEAN, tclimate : BOOLEAN,
     lgpt : {TRUE}, tsum : {FALSE}, typeb : {FALSE}]

\* a cell inside the study area, free of permafrost, in a suitable climate
LiveCells ==
    [mask : {1}, permafrost : {4}, tclimate : {1},
     lgp : {80, 200}, lgpt5 : {80, 200}, lgpt10 : {200}]

\* the same, over growing periods below, at and above the cycle-length limits
ResolverCells ==
    [mask : {1}, permafrost : {4}, tclimate : {1},
     lgp : {80, 100, 200, 350}, lgpt5 : {80, 100, 150, 350}, lgpt10 : {80, 200}]

\* cells one of the screens rejects: masked, continuous and discontinuous
\* permafrost, unsuitable thermal climate
ScreenedCells ==
    [mask : {0}, permafrost : {4}, tclimate : {1},
     lgp : {200}, lgpt5 : {200}, lgpt10 : {200}]
    \cup [mask : {1}, permafrost : {1, 2}, tclimate : {1},
          lgp : {200}, lgpt5 : {200}, lgpt10 : {200}]
    \cup [mask : {1}, permafrost : {4}, tclimate : {2},
          lgp : {200}, lgpt5 : {200}, lgpt10 : {200}]

\* cells outside the study area, over the other inputs of the cell
MaskedCells ==
    [mask : {0}, permafrost : {1, 4}, tclimate : {1, 2},
     lgp : {80, 200}, lgpt5 : {200}, lgpt10 : {200}]

\* cells of a mask whose sentinel is 9: outside (9) and inside (0, 1)
SentinelCells ==
    [mask : {9, 0, 1}, permafrost : {4}, tclimate : {1},
     lgp : {200}, lgpt5 : {200}, lgpt10 : {200}]

\* cells of every permafrost class (0: left unclassified), masked or not,
\* in a suitable or an unsuitable thermal climate
ClassedCells ==
    [mask : {0, 1}, permafrost : 0..4, tclimate : {1, 2},
     lgp : {200}, lgpt5 : {200}, lgpt10 : {200}]

\* the default sweep: every day once
OneDay == {[start |-> 1, end |-> 1, step |-> 1]}
TwoDays == {[start |-> 1, end |-> 2, step |-> 1]}

\* one cell under every sweep configuration; grids of up to MaxWidth cells,
\* screened or not, under a one-day sweep; one cell under a one-day sweep
\* over the masks, the sentinels and the combinations of screenings
Init ==
    \/ InitWith({1}, Sweeps, SweepCrops, NoScreens, LiveCells)
    \/ InitWith({1}, Sweeps, SweepCrops, AllScreens, ScreenedCells)
    \/ InitWith(1..MaxWidth, OneDay, SweepCrops, AllScreens,
                LiveCells \cup ScreenedCells)
    \/ InitWith({1}, OneDay, SweepCrops, AllScreens, MaskedCells)
    \/ InitWith({1}, OneDay, SweepCrops, SentinelScreens, SentinelCells)
    \/ InitWith({1}, OneDay, SweepCrops, AnyScreens, ClassedCells)

\* one cell over the resolver's crop records and growing periods; grids of
\* up to MaxWidth cells over the sweep's
InitResolver ==
    \/ InitWith({1}, OneDay, ResolverCrops, NoScreens, ResolverCells)
    \/ InitWith(1..MaxWidth, OneDay, SweepCrops, AllScreens,
                LiveCells \cup ScreenedCells)

\* an annual crop on usable cells: one cell over two days, two cells over one
InitAnyReturn ==
    \/ InitWith({1}, TwoDays, SweepCrops, NoScreens, LiveCells)
    \/ InitWith(1..MaxWidth, OneDay, SweepCrops, AllScreens,
                LiveCells \cup ScreenedCells)

\* the instance before setCropParameters, ImportLGPandLGPT and the optional
\* screenings: only the climate and, possibly, the mask are set
ClimateOnly(w) ==
    /\ pyaez = 0
    /\ perennial = FALSE
    /\ cycle_len = Unset
    /\ min_cycle_len = Unset
    /\ max_cycle_len = Unset
    /\ min_temp = Unset
    /\ LAi = Unset
    /\ HI = Unset
    /\ set_lgpt_screening = FALSE
    /\ set_Tsum_screening = FALSE
    /\ setTypeBConstraint = FALSE
    /\ TSum = NoThresholds
    /\ crop_df = {}
    /\ SlicesLeftOut
    /\ set_Permafrost_screening = FALSE
    /\ permafrost_class = <<>>
    /\ set_tclimate_screening = FALSE
    /\ t_climate = <<>>
    /\ LGP = <<>>
    /\ LGPT5 = <<>>
    /\ LGPT10 = <<>>
    /\ start_doy = Unset
    /\ end_doy = Unset
    /\ step_doy = Unset
    /\ writes = [g \in GridNames |-> [c \in 1..w |-> 0]]
    /\ SimNotStarted
    /\ ClimateNotEvaluated

\* the instance at the call of getLGP or AirFrostIndexandPermafrostEvaluation
InitClimate(entry, Widths, MaskSet, TempSeries, PrecSeries, PetSeries) ==
    \E w \in Widths, sc \in MaskSet :
      \E maskOf \in [1..w -> sc.values], temps \in [1..w -> TempSeries],
         prec \in [1..w -> PrecSeries], pet \in [1..w -> PetSeries] :
        /\ im_width = w
        /\ set_mask = sc.mask
        /\ nodata_val = sc.nodata
        /\ im_mask = maskOf
        /\ meanT_daily = temps
        /\ totalPrec_daily = prec
        /\ pet_daily = pet
        /\ lgpt5 = [c \in 1..w |->
                       Cardinality({d \in DOMAIN temps[c] : temps[c][d] >= 5})]
        /\ pc = entry
        /\ i_cell = 0
        /\ NoClimateStored
        /\ ClimateOnly(w)

NoMask == [mask : {FALSE}, nodata : {0}, values : {{1}}]
BinaryMask == [mask : {TRUE}, nodata : {0}, values : {{0, 1}}]

\* the instance after setLocationTerrainData and, possibly, setStudyAreaMask
InitLoad ==
    \E sc \in NoMask \cup BinaryMask :
      \E maskOf \in [1..1 -> sc.values] :
        /\ im_width = 1
        /\ set_mask = sc.mask
        /\ nodata_val = sc.nodata
        /\ im_mask = maskOf
        /\ meanT_daily = <<>>
        /\ totalPrec_daily = <<>>
        /\ pet_daily = <<>>
        /\ lgpt5 = <<>>
        /\ pc = "climate_entry"
        /\ i_cell = 0
        /\ NoClimateStored
        /\ ClimateOnly(1)

\* daily mean temperatures whose freezing and thawing sums give the frost
\* indices 0, 0.4, 0.495, 0.5, 0.57, 0.6, 0.625, 0.7, 1 and 0/0
FrostTemps == {-9801, -3249, -49, -25, -9, -4, 0, 4, 9, 1849, 10201}
FrostSeries ==
    {sr \in [1..FrostDays -> FrostTemps] :
        IsSquare(FreezingIndex(sr)) /\ IsSquare(ThawingIndex(sr))}
\* of these, the series of the class limit 0.625, of 0.5 and 0.4, and of 0/0
LimitSeries == {sr \in FrostSeries : NpSum(sr) \in {-16, 0, 5}}
NoSeries == {<<>>}

\* one cell over every series, masked or not; grids of up to MaxWidth cells
\* over the series of a few frost indices
InitFrost ==
    \/ InitClimate("frost_entry", {1}, NoMask \cup BinaryMask,
                   FrostSeries, NoSeries, NoSeries)
    \/ InitClimate("frost_entry", 1..MaxWidth, BinaryMask,
                   LimitSeries, NoSeries, NoSeries)

\* daily climate of getLGP: frost or warmth, no rain or 4 mm, 2 mm of PET
LgpTemps == [1..YearLen -> {-5, 10}]
LgpPrec == [1..YearLen -> {0, 4}]
LgpPet == {[d \in 1..YearLen |-> 2]}
\* the same, the same weather every day
SteadyTemps == {[d \in 1..YearLen |-> t] : t \in {-5, 10}}
SteadyPrec == {[d \in 1..YearLen |-> r] : r \in {0, 4}}

\* one cell over every year; grids of up to MaxWidth cells over steady years
InitLGP ==
    \/ InitClimate("lgp_entry", {1}, NoMask \cup BinaryMask,
                   LgpTemps, LgpPrec, LgpPet)
    \/ InitClimate("lgp_entry", 1..MaxWidth, BinaryMask,
                   SteadyTemps, SteadyPrec, LgpPet)

\* the collaborators the instance may have imported
Implementations == {0, 1, 2}

\* a year that is warm but for one of its first days, or for none
WarmButDay(k) == [d \in 1..MaxEndDoy |-> IF d = k THEN 0 ELSE 10]
RerunTemps == {WarmButDay(k) : k \in 0..2}

\* the instance with its daily temperatures and its collaborators
InitKnown(Widths, SweepSet, CropSet, ScreenSet, CellSet, TempSet) ==
    \E w \in Widths, sw \in SweepSet, cr \in CropSet, sc \in ScreenSet :
      \E cellOf \in [1..w -> CellSet], temps \in [1..w -> TempSet] :
        /\ Configured(w, sw, cr, sc, cellOf)
        /\ pyaez \in Implementations
        /\ meanT_daily = temps

\* one cell over two days and every year; grids of up to MaxWidth usable
\* cells over one day, cold or warm; one screened cell
InitRerun ==
    \/ InitKnown({1}, TwoDays, SweepCrops, NoScreens, LiveCells, RerunTemps)
    \/ InitKnown(1..MaxWidth, OneDay, SweepCrops, NoScreens, LiveCells,
                 {WarmButDay(0), WarmButDay(1)})
    \/ InitKnown({1}, OneDay, SweepCrops, AllScreens, ScreenedCells,
                 {WarmButDay(0)})

\* the default sweep: every day of the year
DefaultSweep == [start |-> 1, end |-> DaysInYear, step |-> 1]

\* crops whose cycle may take the whole year
SliceCrops ==
    [perennial : BOOLEAN, cycle_len : {120, DaysInYear}, min_cycle_len : {100},
     max_cycle_len : {DaysInYear}, min_temp : {5}, LAI : {4}, HI : {3}]

\* cells whose growing periods are too short, shorter than the year, the year
SliceCells ==
    [mask : {1}, permafrost : {4}, tclimate : {1},
     lgp : {80, 200, DaysInYear}, lgpt5 : {80, DaysInYear}, lgpt10 : {200}]

\* the daily minimum temperatures of a year, each standing for its day
YearOfDays == [d \in 1..DaysInYear |-> d]

\* simulateCropCycle at a candidate day of its default sweep over one cell:
\* the grids allocated, the cycle lengths and the indices resolved, the
\* result lists left out
InitSlice ==
    \E cr \in SliceCrops, sc \in NoScreens, cellOf \in [1..1 -> SliceCells],
       day \in (DefaultSweep.start - 1)..(DefaultSweep.end - 1) :
      /\ SetUp(1, DefaultSweep, cr, sc, cellOf)
      /\ pyaez = 0
      /\ meanT_daily = <<>>
      /\ pc = "day_entry"
      /\ i_cell = 1
      /\ i_cycle = day
      /\ cycle_len_irr = IF ~perennial
                         THEN AnnualCycleLen(LGPT5[1])
                         ELSE PerennialCycleLenIrr(IrrigatedPeriod(1))
      /\ cycle_len_rain = IF ~perennial
                          THEN AnnualCycleLen(LGP[1])
                          ELSE PerennialCycleLenRain(LGP[1])
      /\ LAi_rain = RainfedIndex(LAi, aLAI, bLAI, Unset)
      /\ HI_rain = RainfedIndex(HI, aHI, bHI, Unset)
      /\ LAi_irr = IrrigatedIndex(LAi, aLAI, bLAI)
      /\ HI_irr = IrrigatedIndex(HI, aHI, bHI)
      /\ exception = "none"
      /\ yield_of_all_crop_cycles_rainfed = <<>>
      /\ yield_of_all_crop_cycles_irrig = <<>>
      /\ fc1_rain_lst = <<>>
      /\ fc1_irr_lst = <<>>
      /\ fc2_lst = <<>>
      /\ i = Unset
      /\ i1 = Unset
      /\ final_yield_rainfed = NpZeros
      /\ final_yield_irrig = NpZeros
      /\ crop_calender_rain = NpZeros
      /\ crop_calender_irr = NpZeros
      /\ fc1_rain = NpZeros
      /\ fc1_irr = NpZeros
      /\ fc2 = NpZeros
      /\ allocations = 1
      /\ writes = [g \in GridNames |-> [c \in 1..1 |-> 0]]
      /\ searched = {1}
      /\ invoked = {}
      /\ below_min_temp = FALSE
      /\ passed = NoArguments
      /\ configured = {}
      /\ previous_run = {}
      /\ minT_daily_point = YearOfDays
      /\ minT_daily_2year = <<>>
      /\ minT_daily_season_rain = <<>>
      /\ minT_daily_season_irr = <<>>
      /\ window_rain = <<>>
      /\ window_irr = <<>>

\* the instance as constructed: no stage of the thermal screening is set;
\* with no per-cell screen, or with all of them
Constructed ==
    [mask : {FALSE}, nodata : {0}, permafrost : {FALSE}, tclimate : {FALSE},
     lgpt : {FALSE}, tsum : {FALSE}, typeb : {FALSE}]
ConstructedScreened ==
    [mask : {TRUE}, nodata : {0}, permafrost : {TRUE}, tclimate : {TRUE},
     lgpt : {FALSE}, tsum : {FALSE}, typeb : {FALSE}]

\* cells whose growing periods hold the crop's cycle
LongSeasonCells ==
    [mask : {1}, permafrost : {4}, tclimate : {1},
     lgp : {200}, lgpt5 : {200}, lgpt10 : {200}]

\* grids of up to MaxWidth cells of a long season under a one-day sweep, one
\* cell, of a long or a short season, under a sweep of one or two days, one
\* screened cell
InitSetters ==
    \/ InitWith(1..MaxWidth, OneDay, SweepCrops, Constructed, LongSeasonCells)
    \/ InitWith({1}, OneDay \cup TwoDays, SweepCrops, Constructed, LiveCells)
    \/ InitWith({1}, OneDay, SweepCrops, ConstructedScreened, ScreenedCells)

CellLoop ==
    \/ Allocate
    \/ SkipMasked
    \/ SkipPermafrost
    \/ SkipThermalClimate
    \/ ResolveCycleLength
    \/ SelectBest
    \/ NextCell
    \/ Finish

Next == CellLoop \/ CandidateDay

NextAnyReturn == CellLoop \/ CandidateDayAnyReturn

\* collaborators that honour their contract
Spec == Init /\ [][Next]_vars

\* the same, over the inputs of the cycle-length resolver
SpecResolver == InitResolver /\ [][Next]_vars

\* collaborators that may return nan or None
SpecAnyReturn == InitAnyReturn /\ [][NextAnyReturn]_vars

NextRerun == CellLoop \/ CandidateDayDeterministic \/ Rerun

\* two calls of simulateCropCycle on one instance, the collaborators computing
\* their results from their arguments
SpecRerun == InitRerun /\ [][NextRerun]_vars

NextLoad == setDailyClimateData \/ setMonthlyClimateData

\* the climate setters, each called any number of times
SpecLoad == InitLoad /\ [][NextLoad]_vars

NextSlice == TileYear \/ SliceRainfed \/ SliceIrrigated

\* the slices of one candidate day, over the days of the default sweep
SpecSlice == InitSlice /\ [][NextSlice]_vars

Setters ==
    \/ setLGPTScreening
    \/ setTSumScreening
    \/ setCropSpecificRule
    \/ readCropandCropCycleParameters

NextSetters == Setters \/ CellLoop \/ CandidateDay

\* the optional stages are set, or not, before simulateCropCycle is called
SpecSetters == InitSetters /\ [][NextSetters]_vars

NextFrost ==
    \/ FrostIndexGrid
    \/ ClassifyMasked
    \/ Classify
    \/ ReturnFrost

\* AirFrostIndexandPermafrostEvaluation
SpecFrost == InitFrost /\ [][NextFrost]_vars

NextLGP ==
    \/ LgpSetup
    \/ BucketMasked
    \/ BucketCell
    \/ BucketDone
    \/ CountMasked
    \/ CountCell
    \/ ReturnLGP

\* getLGP
SpecLGP == InitLGP /\ [][NextLGP]_vars

----------------------------------------------------------------------------
(* Properties *)

\* the cell i_cell has passed the screens and its cycle lengths are resolved
Processed == pc \in {"sweep", "selected", "raised"}

\* index k of lst holds a largest element of lst
AchievesMax(lst, k) == \A j \in 1..Len(lst) : lst[j] <= lst[k]

\* some result list of the sweep holds a nan or a None
UndefinedRecorded ==
    \E lst \in {yield_of_all_crop_cycles_rainfed, yield_of_all_crop_cycles_irrig,
                fc1_rain_lst, fc1_irr_lst, fc2_lst} :
      \E k \in 1..Len(lst) : ~Defined(lst[k])

\* C1: after the sweep over a cell, the yield written for each regime is the
\* largest yield of the regime's result list, and the fc1 (and, for rainfed,
\* the fc2) written is the one recorded at the index of that yield.
C1_MaxYieldAndFactors ==
    pc = "selected" =>
      /\ AchievesMax(yield_of_all_crop_cycles_rainfed, i1 + 1)
      /\ final_yield_rainfed[i_cell] = yield_of_all_crop_cycles_rainfed[i1 + 1]
      /\ fc1_rain[i_cell] = fc1_rain_lst[i1 + 1]
      /\ fc2[i_cell] = fc2_lst[i1 + 1]
      /\ AchievesMax(yield_of_all_crop_cycles_irrig, i + 1)
      /\ final_yield_irrig[i_cell] = yield_of_all_crop_cycles_irrig[i + 1]
      /\ fc1_irr[i_cell] = fc1_irr_lst[i + 1]

\* C1 witness: a three-day sweep whose rainfed maximum is on the second day,
\* under a reduction factor that differs from the first day's
C1_Witness ==
    /\ pc = "selected"
    /\ Len(yield_of_all_crop_cycles_rainfed) = 3
    /\ yield_of_all_crop_cycles_rainfed[2] > yield_of_all_crop_cycles_rainfed[1]
    /\ yield_of_all_crop_cycles_rainfed[2] > yield_of_all_crop_cycles_rainfed[3]
    /\ fc1_rain_lst[2] # fc1_rain_lst[1]
    /\ fc1_rain_lst[1] # 0
    /\ final_yield_rainfed[i_cell] = yield_of_all_crop_cycles_rainfed[2]
    /\ fc1_rain[i_cell] = fc1_rain_lst[2]
    /\ fc2[i_cell] = fc2_lst[2]

\* C2: when several candidate days achieve the maximum yield of a regime,
\* the best cycle selected is the first of them in the result list, and the
\* crop calendar holds the day label of that index; also when every yield is 0.
C2_EarliestOfTies ==
    pc = "selected" =>
      /\ AchievesMax(yield_of_all_crop_cycles_rainfed, i1 + 1)
      /\ \A k \in 1..Len(yield_of_all_crop_cycles_rainfed) :
            AchievesMax(yield_of_all_crop_cycles_rainfed, k) => i1 + 1 <= k
      /\ crop_calender_rain[i_cell] = (i1 + 1) * step_doy
      /\ AchievesMax(yield_of_all_crop_cycles_irrig, i + 1)
      /\ \A k \in 1..Len(yield_of_all_crop_cycles_irrig) :
            AchievesMax(yield_of_all_crop_cycles_irrig, k) => i + 1 <= k
      /\ crop_calender_irr[i_cell] = (i + 1) * step_doy

\* C2 witness: the rainfed maximum is tied between days 2 and 3 and day 2 is
\* selected; every irrigated yield is 0 and day 1 is selected
C2_Witness ==
    /\ pc = "selected"
    /\ Len(yield_of_all_crop_cycles_rainfed) = 3
    /\ yield_of_all_crop_cycles_rainfed[1] < yield_of_all_crop_cycles_rainfed[2]
    /\ yield_of_all_crop_cycles_rainfed[2] = yield_of_all_crop_cycles_rainfed[3]
    /\ i1 = 1
    /\ crop_calender_rain[i_cell] = 2
    /\ \A k \in 1..3 : yield_of_all_crop_cycles_irrig[k] = 0
    /\ i = 0
    /\ crop_calender_irr[i_cell] = 1

\* C3 (as claimed): the best start day recorded for a cell and regime is the
\* day of year of the candidate that achieved the maximum, start_doy plus
\* its index times step_doy.
C3_BestDayIsSimulatedDay ==
    pc = "selected" =>
      /\ crop_calender_rain[i_cell] = start_doy + i1 * step_doy
      /\ crop_calender_irr[i_cell] = start_doy + i * step_doy

\* C4 (as claimed): after simulateCropCycle the best start day of every
\* unmasked cell, rainfed and irrigated, lies in 1..365, screened cells included.
C4_BestDayInYear ==
    pc = "done" =>
      \A c \in Cells :
        ~IsMasked(c) =>
          /\ crop_calender_rain[c] \in 1..DaysInYear
          /\ crop_calender_irr[c] \in 1..DaysInYear

\* C5 (as claimed): with collaborators that return defined values the sweep
\* never raises, and each result list holds one entry per candidate day
\* swept so far.
C5_SweepCompletes ==
    /\ pc # "raised"
    /\ pc = "sweep" =>
         \A lst \in {yield_of_all_crop_cycles_rainfed, yield_of_all_crop_cycles_irrig,
                     fc1_rain_lst, fc1_irr_lst, fc2_lst} :
           start_doy - 1 + Len(lst) * step_doy = i_cycle

\* C6 (as claimed): once a result list holds a nan or a None the run has
\* raised, and no output grid ever holds one.
C6_AbortOnUndefined ==
    /\ UndefinedRecorded => pc = "raised"
    /\ \A grid \in {final_yield_rainfed, final_yield_irrig, fc1_rain, fc1_irr, fc2} :
         \A c \in DOMAIN grid : Defined(grid[c])

\* C7: for an annual crop, cycle_len_rain is the nominal cycle length if
\* LGP >= min_cycle_len and 0 otherwise, and cycle_len_irr is the nominal
\* cycle length if LGPT5 >= min_cycle_len and 0 otherwise.
C7_AnnualCycleLength ==
    (Processed /\ ~perennial) =>
      /\ cycle_len_rain = (IF LGP[i_cell] >= min_cycle_len THEN cycle_len ELSE 0)
      /\ cycle_len_irr = (IF LGPT5[i_cell] >= min_cycle_len THEN cycle_len ELSE 0)

\* C7 witness: min_cycle_len=90, nominal 120, LGP=200, LGPT5=150 give 120, 120
C7_Witness ==
    /\ pc = "sweep" /\ ~perennial
    /\ min_cycle_len = 90 /\ cycle_len = 120
    /\ LGP[i_cell] = 200 /\ LGPT5[i_cell] = 150
    /\ cycle_len_rain = 120 /\ cycle_len_irr = 120

\* C8: for a perennial crop, cycle_len_rain is 0 when LGP < min_cycle_len,
\* otherwise min(LGP, max_cycle_len), replaced by -1 when that is below
\* min_cycle_len.
C8_PerennialRainfedCycleLength ==
    (Processed /\ perennial) =>
      cycle_len_rain =
        (IF LGP[i_cell] < min_cycle_len THEN 0
         ELSE IF Min(LGP[i_cell], max_cycle_len) < min_cycle_len THEN -1
         ELSE Min(LGP[i_cell], max_cycle_len))

\* C8 witness: LGP=350 capped at max_cycle_len=300, above min_cycle_len=100
C8_Witness ==
    /\ pc = "sweep" /\ perennial
    /\ LGP[i_cell] = 350 /\ max_cycle_len = 300 /\ min_cycle_len = 100
    /\ cycle_len_rain = 300

\* C9 (as claimed): for a perennial crop, cycle_len_irr follows the rainfed
\* rule on LGPT5 (min_temp <= 8) or LGPT10: 0 below min_cycle_len, else the
\* capped period, -1 only when the capped period is below min_cycle_len.
C9_PerennialIrrigatedCycleLength ==
    (Processed /\ perennial) =>
      LET period == IF min_temp <= 8 THEN LGPT5[i_cell] ELSE LGPT10[i_cell]
      IN  cycle_len_irr =
            (IF period < min_cycle_len THEN 0
             ELSE IF Min(period, max_cycle_len) < min_cycle_len THEN -1
             ELSE Min(period, max_cycle_len))

\* C10 (as claimed): for both regimes and both crop types the resolved cycle
\* length is -1, 0 or an integer in [min_cycle_len, max_cycle_len].
C10_CycleLengthInRange ==
    Processed =>
      /\ cycle_len_rain \in {-1, 0} \cup (min_cycle_len..max_cycle_len)
      /\ cycle_len_irr \in {-1, 0} \cup (min_cycle_len..max_cycle_len)

\* C10 (amended): for a perennial crop the resolved cycle length of either
\* regime is -1, 0 or an integer in [min_cycle_len, max_cycle_len]; for an
\* annual crop it is 0 or the nominal cycle length.
C10_CycleLengthByCropType ==
    Processed =>
      IF perennial
      THEN /\ cycle_len_rain \in {-1, 0} \cup (min_cycle_len..max_cycle_len)
           /\ cycle_len_irr \in {-1, 0} \cup (min_cycle_len..max_cycle_len)
      ELSE /\ cycle_len_rain \in {0, cycle_len}
           /\ cycle_len_irr \in {0, cycle_len}

\* C10 witness: an annual crop whose nominal length 120 exceeds
\* max_cycle_len = 95 is resolved to 120 in both regimes
C10_Witness ==
    /\ pc = "sweep" /\ ~perennial
    /\ min_cycle_len <= max_cycle_len /\ cycle_len > max_cycle_len
    /\ cycle_len_rain = cycle_len /\ cycle_len_irr = cycle_len

\* the last entry of a result list
Last(lst) == lst[Len(lst)]

\* every entry of a result list is 0
AllZero(lst) == \A k \in 1..Len(lst) : lst[k] = 0

\* C11: when the resolved cycle length of a regime is 0 or -1, every
\* candidate day swept so far has recorded yield 0 for that regime, the
\* latest day has invoked none of the regime's collaborators, and the final
\* yield of the regime at the cell is 0.
C11_NoCycleNoYield ==
    Processed =>
      /\ cycle_len_rain \in {-1, 0} =>
            /\ AllZero(yield_of_all_crop_cycles_rainfed)
            /\ invoked \cap RainfedCollaborators = {}
            /\ final_yield_rainfed[i_cell] = 0
      /\ cycle_len_irr \in {-1, 0} =>
            /\ AllZero(yield_of_all_crop_cycles_irrig)
            /\ invoked \cap IrrigatedCollaborators = {}
            /\ final_yield_irrig[i_cell] = 0

\* C11 witness: after a three-day sweep whose last day passed the gate, the
\* irrigated cycle length is -1 and the irrigated regime has only zeros,
\* while the rainfed regime ran its collaborators and has a positive yield
C11_Witness ==
    /\ pc = "selected"
    /\ Len(yield_of_all_crop_cycles_irrig) = 3
    /\ cycle_len_irr = -1 /\ cycle_len_rain > 0
    /\ ~below_min_temp
    /\ invoked = RainfedCollaborators
    /\ AllZero(yield_of_all_crop_cycles_irrig)
    /\ final_yield_irrig[i_cell] = 0
    /\ final_yield_rainfed[i_cell] > 0

C13_MinTempGate ==
    (pc = "sweep" /\ below_min_temp) =>
      \A lst \in {yield_of_all_crop_cycles_rainfed, yield_of_all_crop_cycles_irrig,
                  fc1_rain_lst, fc1_irr_lst, fc2_lst} :
        /\ start_doy - 1 + Len(lst) * step_doy = i_cycle
        /\ Last(lst) = 0
        /\ invoked = {}

\* C13 witness: the second day of a sweep is gated after a first day that
\* gave a positive yield in both regimes
C13_Witness ==
    /\ pc = "sweep" /\ below_min_temp
    /\ Len(yield_of_all_crop_cycles_rainfed) = 2
    /\ Len(yield_of_all_crop_cycles_irrig) = 2
    /\ Len(fc1_rain_lst) = 2 /\ Len(fc1_irr_lst) = 2 /\ Len(fc2_lst) = 2
    /\ yield_of_all_crop_cycles_rainfed[1] > 0
    /\ yield_of_all_crop_cycles_irrig[1] > 0
    /\ yield_of_all_crop_cycles_rainfed[2] = 0
    /\ yield_of_all_crop_cycles_irrig[2] = 0
    /\ fc1_rain_lst[2] = 0 /\ fc1_irr_lst[2] = 0 /\ fc2_lst[2] = 0

\* C14: with collaborators that return fc1 and fc2 in [0,1] and yields >= 0,
\* after simulateCropCycle every cell has fc1_rain, fc1_irr and fc2 in [0,1]
\* and non-negative final yields.
C14_OutputsInRange ==
    pc = "done" =>
      \A c \in Cells :
        /\ fc1_rain[c] \in 0..FcOne
        /\ fc1_irr[c] \in 0..FcOne
        /\ fc2[c] \in 0..FcOne
        /\ final_yield_rainfed[c] >= 0
        /\ final_yield_irrig[c] >= 0

\* C14 witness: a finished run over two cells, one left as allocated by a
\* screen and one with positive yields and reduction factors
C14_Witness ==
    /\ pc = "done" /\ im_width = 2
    /\ searched = {2}
    /\ final_yield_rainfed[2] > 0 /\ final_yield_irrig[2] > 0
    /\ fc1_rain[2] > 0 /\ fc1_irr[2] > 0 /\ fc2[2] > 0

\* C15 (as claimed): after simulateCropCycle every output grid holds the
\* no-data value of the mask at every masked cell, and no exception is raised
\* while a masked cell is the current one.
C15_MaskedCellsNoData ==
    /\ pc = "done" =>
         \A c \in Cells :
           IsMasked(c) =>
             \A grid \in {final_yield_rainfed, final_yield_irrig,
                          crop_calender_rain, crop_calender_irr,
                          fc1_rain, fc1_irr, fc2} : grid[c] = nodata_val
    /\ pc = "raised" => ~IsMasked(i_cell)

\* C16 (as claimed): the output grids are allocated once, and when the run
\* is over every unmasked cell, screened or not, has been assigned exactly
\* once in each output grid.
C16_WrittenExactlyOnce ==
    /\ allocations <= 1
    /\ pc = "done" =>
         /\ allocations = 1
         /\ \A c \in Cells :
               ~IsMasked(c) => \A g \in GridNames : writes[g][c] = 1

\* C19: with permafrost screening enabled, after the run no cell of class 1
\* or 2 has had its sweep started, and a cell of any other class has had it
\* started exactly when the mask and the thermal-climate screening let it
\* through, as they do with the permafrost screening disabled.
C19_PermafrostExclusion ==
    (pc = "done" /\ set_Permafrost_screening) =>
      \A c \in Cells :
        IF permafrost_class[c] \in {1, 2}
        THEN c \notin searched /\ \A g \in GridNames : writes[g][c] = 0
        ELSE c \in searched <=> (~IsMasked(c) /\ ~IsUnsuitableClimate(c))

\* C19 witness: of two unmasked cells in a suitable climate, the one with
\* discontinuous permafrost was skipped and the one without permafrost was
\* searched
C19_Witness ==
    /\ pc = "done" /\ set_Permafrost_screening /\ im_width = 2
    /\ ~IsMasked(1) /\ ~IsUnsuitableClimate(1) /\ permafrost_class[1] = 2
    /\ ~IsMasked(2) /\ ~IsUnsuitableClimate(2) /\ permafrost_class[2] = 4
    /\ searched = {2}

\* the class the limits 0.625, 0.57 and 0.495 give a frost index, each limit
\* belonging to the class below it
ClassOfFrostIndex(f) ==
    IF Greater(f, FiContinuous) THEN 1
    ELSE IF Greater(f, FiDiscontinuous) THEN 2
    ELSE IF Greater(f, FiSporadic) THEN 3
    ELSE 4

\* the freezing and the thawing index of cell c are both 0
NoFreezeNoThaw(c) ==
    FreezingIndex(meanT_daily[c]) = 0 /\ ThawingIndex(meanT_daily[c]) = 0

\* C17 (as claimed): every unmasked cell whose frost index is a defined
\* quotient is classified 1 above 0.625, 2 in (0.57, 0.625], 3 in
\* (0.495, 0.57] and 4 up to 0.495; none is left at 0.
C17_TotalClassification ==
    pc = "frost_done" =>
      \A c \in Cells :
        (~IsMasked(c) /\ ~NoFreezeNoThaw(c)) =>
          permafrost[c] = ClassOfFrostIndex(fi[c])

\* C18 (as claimed): an unmasked cell whose freezing and thawing indices are
\* both 0 gets the frost index 0 and the class 4.
C18_ZeroOverZero ==
    pc = "frost_done" =>
      \A c \in Cells :
        (~IsMasked(c) /\ NoFreezeNoThaw(c)) =>
          /\ fi[c] = [num |-> 0, den |-> 1]
          /\ permafrost[c] = 4

\* the LGP of cell c from its own climate, the bucket starting empty
LgpAlone(c) ==
    LET year == BucketYear(c, 1, BucketStart, BucketStart)
    IN  CountLgp(year.Eta, year.Etm, meanT_daily[c])

\* C20 (as claimed): the LGP getLGP returns for an unmasked cell, and the
\* daily ETa it is counted from, are those of the cell's own climate run
\* through a bucket that starts from the initial state.
C20_CellIndependentLGP ==
    pc = "lgp_done" =>
      \A c \in Cells :
        ~IsMasked(c) =>
          /\ Eta365[c] = BucketYear(c, 1, BucketStart, BucketStart).Eta
          /\ lgp_tot[c] = LgpAlone(c)

\* C21: when simulateCropCycle has run twice on the same instance, with the
\* same inputs and collaborators that compute their results from their
\* arguments, the second run leaves the best days, the yields, fc1 and fc2
\* of every cell as the first run left them.
C21_Determinism ==
    (pc = "done" /\ previous_run # {}) => previous_run = {RunOutputs}

\* C21 witness: the second run over two cells of a perennial crop is over;
\* cell 1 gave a rainfed yield, and cell 2, whose LGP is too short, left the
\* rainfed cycle length at 0 and the rainfed LAI as cell 1 had adjusted it
C21_Witness ==
    /\ pc = "done" /\ previous_run # {}
    /\ im_width = 2 /\ perennial
    /\ final_yield_rainfed[1] > 0
    /\ LGP[2] < min_cycle_len /\ cycle_len_rain = 0
    /\ LAi_rain = Adjusted(LAi, LGP[1], aLAI, bLAI)
    /\ final_yield_irrig[2] > 0

\* the values of every series of a stored grid
StoredValues(grid) == {grid[c][d] : c \in DOMAIN grid, d \in 1..LoadLen}

\* C22 (as claimed): once a climate setter has run, every stored relative
\* humidity is in [0.05, 0.99] and every stored radiation and wind speed is
\* >= 0, in the monthly and in the daily stores.
C22_StoredClimateClipped ==
    pc = "climate_loaded" =>
      /\ \A h \in StoredValues(rel_humidity_daily)
                  \cup StoredValues(rel_humidity_monthly) : RhMin <= h /\ h <= RhMax
      /\ \A x \in StoredValues(shortRad_daily) \cup StoredValues(shortRad_monthly)
                  \cup StoredValues(wind2m_daily) \cup StoredValues(wind2m_monthly) :
            x >= 0

\* the day of the year at the 0-based index k of the repeated year
DayAt(k) == (k % DaysInYear) + 1

\* C23 (as claimed): the window given to the thermal screening of a regime
\* starts at the candidate day and has exactly 365 days for a perennial crop,
\* exactly the resolved cycle length of the regime for an annual crop.
C23_ScreeningWindow ==
    pc = "day_irrigated" =>
      /\ cycle_len_rain \notin {-1, 0} =>
            /\ window_rain[1] = DayAt(i_cycle)
            /\ Len(window_rain) = IF perennial THEN DaysInYear ELSE cycle_len_rain
      /\ cycle_len_irr \notin {-1, 0} =>
            /\ window_irr[1] = DayAt(i_cycle)
            /\ Len(window_irr) = IF perennial THEN DaysInYear ELSE cycle_len_irr

\* the slice asked for at index lo of the repeated year, len days long: all of
\* it is there, and it runs through the days of the year, December to January
InsideRepeatedYear(slice, lo, len) ==
    /\ lo + len <= Len(minT_daily_2year)
    /\ Len(slice) = len
    /\ \A k \in 1..Len(slice) : slice[k] = DayAt(lo + k - 1)

\* C29: for every candidate day of the year and every usable cycle length
\* up to 365, the season sliced from the repeated year ends inside it, holds
\* every day asked for, and goes on with the first days of the year after
\* the last one.
C29_SeasonInsideRepeatedYear ==
    pc = "day_irrigated" =>
      /\ cycle_len_rain \notin {-1, 0} =>
            /\ i_cycle + cycle_len_rain <= Len(minT_daily_2year)
            /\ InsideRepeatedYear(minT_daily_season_rain, i_cycle,
                                  cycle_len_rain - 1)
      /\ cycle_len_irr \notin {-1, 0} =>
            /\ i_cycle + cycle_len_irr <= Len(minT_daily_2year)
            /\ InsideRepeatedYear(minT_daily_season_irr, i_cycle,
                                  cycle_len_irr - 1)

\* C29 witness: the last day of the year, a cycle of the whole year: the
\* rainfed season starts on day 365 and goes on with days 1, 2, ...
C29_Witness ==
    /\ pc = "day_irrigated"
    /\ i_cycle = DaysInYear - 1 /\ cycle_len_rain = DaysInYear
    /\ minT_daily_season_rain[1] = DaysInYear
    /\ minT_daily_season_rain[2] = 1
    /\ minT_daily_season_rain[Len(minT_daily_season_rain)] = DaysInYear - 2

----------------------------------------------------------------------------
(* The optional stages of the thermal screening *)

ScreeningObjects == {ScreeningRain, ScreeningIrr}

\* the stages configured on a screening object
ConfiguredOn(obj) == {stage \in Stages : <<obj, stage>> \in configured}

\* the stages whose flags are set
FlaggedStages ==
    {stage \in Stages :
        \/ stage = "LGPT" /\ set_lgpt_screening
        \/ stage = "TSUM" /\ set_Tsum_screening
        \/ stage = "TypeB" /\ setTypeBConstraint}

StagesFollowFlags ==
    \A obj \in ScreeningObjects :
        ConfiguredOn(obj) = IF obj \in invoked THEN FlaggedStages ELSE {}

\* a flag changes in a step of its own setter only (the TSUM flag also when
\* the crop sheet is read), and that step sets it and leaves the others
FlagsStep ==
    /\ set_lgpt_screening' # set_lgpt_screening =>
          /\ setLGPTScreening /\ set_lgpt_screening'
          /\ UNCHANGED <<set_Tsum_screening, setTypeBConstraint>>
    /\ set_Tsum_screening' # set_Tsum_screening =>
          /\ setTSumScreening \/ readCropandCropCycleParameters
          /\ set_Tsum_screening'
          /\ UNCHANGED <<set_lgpt_screening, setTypeBConstraint>>
    /\ setTypeBConstraint' # setTypeBConstraint =>
          /\ setCropSpecificRule /\ setTypeBConstraint'
          /\ UNCHANGED <<set_lgpt_screening, set_Tsum_screening>>

\* C24: a stage of the thermal screening (LGPT, TSUM, Type-B rule) is
\* configured on the screening object of a candidate day exactly when its
\* set-flag is active, a screening object that is not built has no stage, and
\* a flag becomes active only in a step of its own setter, which leaves the
\* other flags as they were.
C24_StageOnlyIfFlagSet == []StagesFollowFlags /\ [][FlagsStep]_vars

\* both screenings of a day were built with the LGPT stage and the Type-B
\* rule, whose setters were called, and without the TSUM stage
C24_Witness ==
    /\ pc = "sweep" /\ ScreeningObjects \subseteq invoked
    /\ set_lgpt_screening /\ setTypeBConstraint /\ ~set_Tsum_screening
    /\ ConfiguredOn(ScreeningRain) = {"LGPT", "TypeB"}
    /\ ConfiguredOn(ScreeningIrr) = {"LGPT", "TypeB"}

\* every threshold of the row is a number
AllProvided(row) == \A name \in DOMAIN row : row[name] # NaN

\* reading a row sets the TSUM flag when the row provides the six thresholds
\* and leaves it as it was when one is missing
ReadStep ==
    crop_df' # crop_df =>
        \A row \in crop_df' :
            /\ AllProvided(row) =>
                  /\ set_Tsum_screening'
                  /\ TSum' = [name \in DOMAIN row |-> PyInt(row[name])]
            /\ ~AllProvided(row) => set_Tsum_screening' = set_Tsum_screening

\* C25: readCropandCropCycleParameters activates the TSUM screening if the
\* six thresholds (LnS, LsO, LO, HnS, HsO, HO) are all provided for the crop,
\* and if any of them is missing the TSUM flag stays as it was.
C25_TSumOnlyIfAllProvided == [][ReadStep]_vars

\* a row without its third threshold was read: the conversion of the missing
\* threshold raised after the first two were stored, the flag is not set
C25_Witness ==
    /\ \E row \in crop_df : row.LO = NaN /\ row.LnS # NaN /\ row.LsO # NaN
    /\ exception = "ValueError"
    /\ ~set_Tsum_screening
    /\ TSum.LnS = 800 /\ TSum.LsO = 1000 /\ TSum.LO = Unset

\* an annual crop on an instance none of whose optional screenings is set
NothingOptional ==
    /\ ~perennial
    /\ FlaggedStages = {}
    /\ ~set_Permafrost_screening /\ ~set_tclimate_screening

\* C26 as stated: with every optional screening disabled and an annual crop,
\* the thermal reduction factor written for a processed cell is 1 for rainfed
\* and for irrigated.
C26_Fc1AlwaysOne ==
    (NothingOptional /\ pc = "selected") =>
        fc1_rain[i_cell] = FcOne /\ fc1_irr[i_cell] = FcOne

\* the factor a candidate day records for a regime of cycle length len
Fc1Recorded(len) == IF below_min_temp \/ len \in {-1, 0} THEN 0 ELSE FcOne

\* C26 amended: with every optional screening disabled and an annual crop, a
\* candidate day records the thermal reduction factor 1 for a regime, unless
\* the day is below the crop's minimum temperature or the regime has no usable
\* cycle length, when it records 0; the factor written for a processed cell is
\* one of the two, and it is 1 wherever the yield written is positive.
C26_Fc1OneUnlessGated ==
    NothingOptional =>
        /\ (pc = "sweep" /\ Len(fc1_rain_lst) > 0) =>
              /\ Last(fc1_rain_lst) = Fc1Recorded(cycle_len_rain)
              /\ Last(fc1_irr_lst) = Fc1Recorded(cycle_len_irr)
        /\ pc = "selected" =>
              /\ fc1_rain[i_cell] \in {0, FcOne}
              /\ fc1_irr[i_cell] \in {0, FcOne}
              /\ final_yield_rainfed[i_cell] > 0 => fc1_rain[i_cell] = FcOne
              /\ final_yield_irrig[i_cell] > 0 => fc1_irr[i_cell] = FcOne

\* a cell whose rainfed season is too short and whose irrigated one holds the
\* cycle: the factors written are 0 and 1
C26_Witness ==
    /\ NothingOptional /\ pc = "selected"
    /\ cycle_len_rain = 0 /\ fc1_rain[i_cell] = 0
    /\ final_yield_irrig[i_cell] > 0 /\ fc1_irr[i_cell] = FcOne

----------------------------------------------------------------------------
(* getLGP and the cells outside the study area *)

\* C27: in the grid getLGP returns, every cell outside the study-area mask
\* holds the default value zero, and every cell inside it a count of days
\* between 0 and the length of the year.
C27_MaskedCellsZero ==
    pc = "lgp_done" =>
        \A c \in Cells :
            IF set_mask /\ im_mask[c] = nodata_val
            THEN lgp_tot[c] = 0
            ELSE lgp_tot[c] \in 0..YearLen

----------------------------------------------------------------------------
(* The leaf-area and harvest indices given to the yield model *)

\* the indices of a perennial crop over a cycle of len days, and of an annual
IndicesOver(len) ==
    <<[num |-> LAi * (len - aLAI), den |-> bLAI],
      [num |-> HI * (len - aHI), den |-> bHI]>>
BaseIndices == <<[num |-> LAi, den |-> 1], [num |-> HI, den |-> 1]>>

IndicesFor(len) == IF perennial THEN IndicesOver(len) ELSE BaseIndices

IndicesAsResolved ==
    /\ BiomassRain \in invoked => passed.rain = IndicesFor(cycle_len_rain)
    /\ BiomassIrr \in invoked => passed.irr = IndicesFor(cycle_len_irr)
    /\ (pc = "sweep" /\ cycle_len_rain \notin {-1, 0}) =>
          <<LAi_rain, HI_rain>> = IndicesFor(cycle_len_rain)
    /\ (pc = "sweep" /\ cycle_len_irr \notin {-1, 0}) =>
          <<LAi_irr, HI_irr>> = IndicesFor(cycle_len_irr)

\* C28: whenever the yield model of a regime is invoked on a cell, the LAI
\* and HI it is given are, for a perennial crop, the base values scaled by
\* ((len - a) / b) with len the cycle length resolved for this cell and this
\* regime, and for an annual crop the base values; during the sweep of a cell
\* both regimes hold their own values at once, and no step changes the base
\* LAI and HI.
C28_IndicesOfCellAndRegime ==
    []IndicesAsResolved /\ [][UNCHANGED <<LAi, HI>>]_vars

\* a perennial crop on a cell whose rainfed season is 200 days and whose
\* irrigated one is 150: both yield models were invoked, each with its own
\* indices
C28_Witness ==
    /\ perennial /\ pc = "sweep"
    /\ cycle_len_rain = 200 /\ cycle_len_irr = 150
    /\ {BiomassRain, BiomassIrr} \subseteq invoked
    /\ passed.rain = IndicesOver(200)
    /\ passed.irr = IndicesOver(150)
    /\ passed.rain # passed.irr

----------------------------------------------------------------------------
(* The moisture reduction factor, a result of the rainfed regime alone *)

====
